---------------------------- MODULE Spec2Model ----------------------------
(***************************************************************************)
(* A model of the analysis scripts of the VB6 migration tool kit.  Every   *)
(* script is an independent batch program, so the module holds one state   *)
(* machine per script, each with its own specification:                    *)
(*                                                                         *)
(*   SpecScan    scripts/vb6_comprehensive_scanner.py  (scan and its cache)*)
(*   SpecDead    scripts/vb6_dead_code_detector.py                         *)
(*   SpecSchema  scripts/vb6_schema_extractor.py                           *)
(*   SpecGraph   scripts/vb6_dependency_graph.py                           *)
(*   SpecRepair  skills/quality-gates/scripts/test_failure_analyzer.py and *)
(*               repair_report_generator.py, run one after the other on    *)
(*               one output directory                                      *)
(*   SpecReport  the same two scripts, the analyzer run with its default   *)
(*               --max-iterations                                          *)
(*   SpecRace    test_failure_analyzer.py, several invocations at once on  *)
(*               one output directory                                      *)
(*   SpecCov     skills/quality-gates/scripts/coverage_validator.py        *)
(*   SpecAudit   skills/a11y-reviewer/scripts/a11y_audit.py and            *)
(*               skills/security-reviewer/scripts/security_audit.py        *)
(*   SpecDown    skills/contract-tests/scripts/contract_validator.py and   *)
(*               scripts/html_report_generator.py, the tools that read the *)
(*               JSON another tool wrote                                   *)
(*   SpecHard    scripts/vb6_hardcoded_extractor.py                        *)
(*   SpecMetrics scripts/vb6_metrics_analyzer.py  (_calculate_complexity)  *)
(*   SpecRisk    scripts/vb6_metrics_analyzer.py  (analyze, the risk score) *)
(*                                                                         *)
(* The variables of the scripts a specification does not run are parked at *)
(* their Idle values and never change.                                     *)
(***************************************************************************)
EXTENDS Integers, Sequences, FiniteSets, Bags, TLC

VARIABLES
    \* --- vb6_comprehensive_scanner.py ---
    fs,          \* the scanned directory: path -> [size, mtime, readable] or NoFile
    clock,       \* the wall clock, as the file system's mtime sees it
    cache,       \* the content of the cache file, or NoCache
    dirty,       \* a file of the directory was changed since the last scan()
    edits,       \* how many times the user changed a source file
    runsLog,     \* one record per finished scan(), oldest first
    \* --- vb6_dead_code_detector.py ---
    srcDir,      \* the analysed directory: path -> [name, decls, calls]
    walkOrder,   \* the order in which os.walk yields the paths
    deadResult,  \* what analyze() returned, or NoResult
    \* --- vb6_schema_extractor.py ---
    sqlFiles,    \* the files in os.walk order, each the SQL its text holds
    sqlPos,      \* how many files _analyze_file has processed
    tables,      \* self.tables
    relationships, \* self.relationships
    schemaResult, \* what analyze() returned, or NoResult
    schemaRuns,  \* what the earlier runs of the extractor on the directory returned
    \* --- vb6_dependency_graph.py ---
    graphFiles,  \* the stems of the analysed files, in os.walk order
    refTexts,    \* the bag of <<source, target, form>>: the texts of the files
    graphResult, \* what analyze() returned, or NoResult
    \* --- test_failure_analyzer.py, repair_report_generator.py ---
    historyFile, \* error_history.json: error id -> count, or NoFile
    planFiles,   \* repair_plan_NNN.json: iteration number -> its content
    analyzerRuns, \* how many times test_failure_analyzer was run
    lastRun,     \* what the last run of test_failure_analyzer did, or NoResult
    report,      \* the records and summary of the report generator, or NoResult
    \* --- coverage_validator.py ---
    covFiles,    \* layer -> its coverage-summary.json: totals, Malformed or NoFile
    covRun,      \* what the run of coverage_validator did, or NoResult
    \* --- a11y_audit.py, security_audit.py ---
    auditDirs,   \* root directory -> [exists, files]
    auditRun,    \* what the run of an audit tool did, or NoResult
    \* --- contract_validator.py, html_report_generator.py ---
    swaggerFile, \* swagger.json: [endpoints], Malformed or NoFile
    serviceCalls, \* the HTTP calls in the Angular services: [method, url]
    analysisJson, \* the analysis JSON of the report generator: [valid], Malformed or NoFile
    downRun,     \* what the run of a downstream tool did, or NoResult
    \* --- test_failure_analyzer.py, concurrent invocations ---
    planner,     \* invocation -> its program counter and its RepairPlanner object
    \* --- vb6_hardcoded_extractor.py ---
    hcContent,   \* the text of the analysed file, a sequence of characters
    hcResult,    \* what analyze() returned, or NoResult
    \* --- vb6_metrics_analyzer.py ---
    mtBody,      \* the body of the analysed routine, a sequence of words
    mtResult,    \* the complexity _calculate_complexity returned, or NoResult
    \* --- vb6_metrics_analyzer.py, analyze ---
    rkFiles,     \* the source files of the directory, as _analyze_file measures them
    rkResult     \* the metrics analyze returned, or NoResult

scanVars == <<fs, clock, cache, dirty, edits, runsLog>>

deadVars == <<srcDir, walkOrder, deadResult>>

schemaVars == <<sqlFiles, sqlPos, tables, relationships, schemaResult, schemaRuns>>

graphVars == <<graphFiles, refTexts, graphResult>>

repairVars == <<historyFile, planFiles, analyzerRuns, lastRun, report>>

covVars == <<covFiles, covRun>>

auditVars == <<auditDirs, auditRun>>

downVars == <<swaggerFile, serviceCalls, analysisJson, downRun>>

raceVars == <<planner>>

hardVars == <<hcContent, hcResult>>

metricsVars == <<mtBody, mtResult>>

riskVars == <<rkFiles, rkResult>>

\* The variables of the other scripts, which a script's actions leave alone.
notScan == <<deadVars, schemaVars, graphVars, repairVars, covVars, auditVars, downVars, raceVars, hardVars, metricsVars, riskVars>>
notDead == <<scanVars, schemaVars, graphVars, repairVars, covVars, auditVars, downVars, raceVars, hardVars, metricsVars, riskVars>>
notSchema == <<scanVars, deadVars, graphVars, repairVars, covVars, auditVars, downVars, raceVars, hardVars, metricsVars, riskVars>>
notGraph == <<scanVars, deadVars, schemaVars, repairVars, covVars, auditVars, downVars, raceVars, hardVars, metricsVars, riskVars>>
notRepair == <<scanVars, deadVars, schemaVars, graphVars, covVars, auditVars, downVars, raceVars, hardVars, metricsVars, riskVars>>
notCov == <<scanVars, deadVars, schemaVars, graphVars, repairVars, auditVars, downVars, raceVars, hardVars, metricsVars, riskVars>>
notAudit == <<scanVars, deadVars, schemaVars, graphVars, repairVars, covVars, downVars, raceVars, hardVars, metricsVars, riskVars>>
notDown == <<scanVars, deadVars, schemaVars, graphVars, repairVars, covVars, auditVars, raceVars, hardVars, metricsVars, riskVars>>
notRace == <<scanVars, deadVars, schemaVars, graphVars, covVars, auditVars, downVars, hardVars, metricsVars, riskVars>>
notHard == <<scanVars, deadVars, schemaVars, graphVars, repairVars, covVars, auditVars, downVars, raceVars, metricsVars, riskVars>>
notMetrics == <<scanVars, deadVars, schemaVars, graphVars, repairVars, covVars, auditVars, downVars, raceVars, hardVars, riskVars>>
notRisk == <<scanVars, deadVars, schemaVars, graphVars, repairVars, covVars, auditVars, downVars, raceVars, hardVars, metricsVars>>

vars == <<fs, clock, cache, dirty, edits, runsLog, srcDir, walkOrder, deadResult,
          sqlFiles, sqlPos, tables, relationships, schemaResult, schemaRuns,
          graphFiles, refTexts, graphResult,
          historyFile, planFiles, analyzerRuns, lastRun, report,
          covFiles, covRun, auditDirs, auditRun,
          swaggerFile, serviceCalls, analysisJson, downRun, planner,
          hcContent, hcResult,
          mtBody, mtResult,
          rkFiles, rkResult>>

(***************************************************************************)
(*                    vb6_comprehensive_scanner.py                         *)
(***************************************************************************)

\* Bounds of the scanner model.
MaxClock == 1
MaxRuns == 4
MaxSize == 2
MaxEdits == 1

NoFile == [absent |-> TRUE]

CACHE_FILE == ".vb6_scanner_cache.json"

\* The source files the model puts in the directory: two at its top and one
\* in a node_modules subdirectory.
SourcePaths == {"Form1.frm", "Module1.bas", "node_modules/Lib.bas"}

\* Every path of the directory in sorted order (the order of
\* all_files.sort(key=path)).
PathOrder == <<CACHE_FILE, "Form1.frm", "Module1.bas", "node_modules/Lib.bas">>

AllPaths == {PathOrder[i] : i \in 1..Len(PathOrder)}

\* Path(...).name
FileName(p) == IF p = "node_modules/Lib.bas" THEN "Lib.bas" ELSE p

\* The names of the directories between the scanned directory and the file
\* (the parts of relative_path but the last).
ParentDirs(p) == IF p = "node_modules/Lib.bas" THEN {"node_modules"} ELSE {}

\* filepath.suffix.lower()
Extension(p) ==
    CASE p = CACHE_FILE -> ".json"
      [] p \in {"Module1.bas", "node_modules/Lib.bas"} -> ".bas"
      [] OTHER -> ".frm"

\* The FILE_CATEGORIES lookup of _discover_files.
Category(p) ==
    CASE Extension(p) = ".frm" -> "forms"
      [] Extension(p) = ".bas" -> "modules"
      [] OTHER -> "unknown"

\* _discover_files: os.walk over the whole directory, every file of it, with
\* its name, path, size and category.  self.files, flattened.
discover_files(dir) ==
    { [name |-> FileName(p), path |-> p, size_bytes |-> dir[p].size,
       category |-> Category(p)] : p \in {q \in AllPaths : dir[q] # NoFile} }

\* _calculate_source_hash: the digest of name + size + mtime of every
\* discovered file, in path order.  The digest is modelled by the sequence it
\* is computed from.
calculate_source_hash(files, dir) ==
    LET present == SelectSeq(PathOrder, LAMBDA p : \E f \in files : f.path = p)
    IN  [i \in 1..Len(present) |->
            LET f == CHOOSE g \in files : g.path = present[i]
            IN  <<f.name, f.size_bytes, dir[f.path].mtime>>]

\* The parsing steps of scan(), steps 2 to 4, in the order scan() calls them.
ParseOrder == <<"_parse_project_files", "_parse_forms", "_parse_modules", "_parse_classes">>

ParseSteps == {ParseOrder[i] : i \in 1..Len(ParseOrder)}

\* The category of self.files a parsing step reads with _read_file.
StepCategory(step) ==
    CASE step = "_parse_project_files" -> "project"
      [] step = "_parse_forms" -> "forms"
      [] step = "_parse_modules" -> "modules"
      [] OTHER -> "classes"

\* _read_file: open() of a file the process may not read raises
\* PermissionError, which the except clause (UnicodeDecodeError,
\* FileNotFoundError) does not catch.  TRUE when the call raises.
read_file_raises(dir, path) == ~dir[path].readable

\* The first parsing step in which a _read_file call raises, 0 when none does.
FirstRaisingStep(files, dir) ==
    LET raising == {i \in 1..Len(ParseOrder) :
                       \E f \in files : /\ f.category = StepCategory(ParseOrder[i])
                                        /\ read_file_raises(dir, f.path)}
    IN  IF raising = {} THEN 0
        ELSE CHOOSE i \in raising : \A j \in raising : i <= j

NoCache == [absent |-> TRUE]

\* A cache file whose text json.load rejects.
InvalidJson == [invalid_json |-> TRUE]

\* _load_from_cache: TRUE exactly when the cache file exists, is JSON, stores
\* the current hash and has an analysis; every exception of the read is
\* caught and gives FALSE.
load_from_cache(cached, current_hash) ==
    /\ cached # NoCache
    /\ cached # InvalidJson
    /\ "source_hash" \in DOMAIN cached
    /\ cached.source_hash = current_hash
    /\ "analysis" \in DOMAIN cached

\* The analysis the full scan builds: the inventory of _discover_files, the
\* files the parsing steps read, and the summary counts.
full_analysis(files, now) ==
    [ scan_date |-> now,
      inventory |-> files,
      parsed    |-> {f.path : f \in {g \in files : g.category \in {"forms", "modules"}}},
      total_files |-> Cardinality(files) ]

\* The size of the JSON text json.dump writes for the cache: it grows with the
\* inventory.
CacheSize(analysis) == 10 + Cardinality(analysis.inventory)

\* _save_to_cache: the file's new content.
save_to_cache(current_hash, analysis) ==
    [source_hash |-> current_hash, analysis |-> analysis]

\* What a run that ended in an exception returned.
NoAnalysis == [raised |-> "PermissionError"]

\* scan(): discover, hash, try the cache, else parse everything and save.  A
\* _read_file call that raises ends the run there.  The open() of
\* _save_to_cache may fail (write_ok false); the exception is caught and the
\* cache file stays as it was.
Scan ==
    /\ Len(runsLog) < MaxRuns
    /\ \E write_ok \in BOOLEAN :
       LET files == discover_files(fs)
           current_hash == calculate_source_hash(files, fs)
           hit == load_from_cache(cache, current_hash)
           failing == IF hit THEN 0 ELSE FirstRaisingStep(files, fs)
           raised == failing # 0
           saved == ~hit /\ ~raised /\ write_ok
           analysis == CASE hit -> cache.analysis
                         [] raised -> NoAnalysis
                         [] OTHER -> full_analysis(files, clock)
       IN  /\ runsLog' = Append(runsLog,
                  [ hit |-> hit,
                    steps |-> CASE hit -> {}
                                [] raised -> {ParseOrder[i] : i \in 1..failing}
                                [] OTHER -> ParseSteps,
                    analysis |-> analysis,
                    changed |-> dirty,
                    cached |-> cache,
                    current_hash |-> current_hash,
                    raised |-> raised,
                    saved |-> saved ])
           /\ IF saved
              THEN /\ cache' = save_to_cache(current_hash, analysis)
                   /\ fs' = [fs EXCEPT ![CACHE_FILE] =
                                [size |-> CacheSize(analysis), mtime |-> clock,
                                 readable |-> TRUE]]
              ELSE UNCHANGED <<fs, cache>>
    /\ dirty' = FALSE
    /\ UNCHANGED <<clock, edits>>
    /\ UNCHANGED notScan

\* Time passes.
Tick ==
    /\ clock < MaxClock
    /\ clock' = clock + 1
    /\ UNCHANGED <<fs, cache, dirty, edits, runsLog>>
    /\ UNCHANGED notScan

\* The user edits, adds or removes a source file between two runs, or changes
\* its permissions.
TouchSource ==
    /\ edits < MaxEdits
    /\ edits' = edits + 1
    /\ \E p \in SourcePaths :
         \E f \in {NoFile} \cup [size : 1..MaxSize, mtime : {clock}, readable : BOOLEAN] :
            /\ fs[p] # f
            /\ fs' = [fs EXCEPT ![p] = f]
    /\ dirty' = TRUE
    /\ UNCHANGED <<clock, cache, runsLog>>
    /\ UNCHANGED notScan

\* What is left of a cache file that something other than scan() damaged:
\* text that is not JSON, or JSON without one of the two keys.
DamagedCaches(cached) ==
    {InvalidJson}
    \cup (IF "analysis" \in DOMAIN cached THEN {[analysis |-> cached.analysis]} ELSE {})
    \cup (IF "source_hash" \in DOMAIN cached THEN {[source_hash |-> cached.source_hash]} ELSE {})

\* The cache file is removed or damaged between two runs.
DamageCache ==
    /\ edits < MaxEdits
    /\ edits' = edits + 1
    /\ cache # NoCache
    /\ \/ /\ cache' = NoCache
          /\ fs' = [fs EXCEPT ![CACHE_FILE] = NoFile]
       \/ \E c \in DamagedCaches(cache) :
            /\ c # cache
            /\ cache' = c
            /\ fs' = [fs EXCEPT ![CACHE_FILE] = [size |-> 1, mtime |-> clock, readable |-> TRUE]]
    /\ dirty' = TRUE
    /\ UNCHANGED <<clock, runsLog>>
    /\ UNCHANGED notScan

ScanInit ==
    /\ fs \in [AllPaths -> {NoFile} \cup [size : {1}, mtime : {0}, readable : BOOLEAN]]
    /\ fs[CACHE_FILE] = NoFile
    /\ clock = 0
    /\ cache = NoCache
    /\ dirty = FALSE
    /\ edits = 0
    /\ runsLog = <<>>

ScanNext == Scan \/ Tick \/ TouchSource \/ DamageCache

ScanIdle ==
    /\ fs = <<>> /\ clock = 0 /\ cache = NoCache /\ dirty = FALSE /\ edits = 0 /\ runsLog = <<>>

(***************************************************************************)
(*                       vb6_dead_code_detector.py                         *)
(*                                                                         *)
(* A source file is modelled by what the regular expressions of PATTERNS   *)
(* find in it: the routines it declares (PATTERNS['declaration']) and how  *)
(* many call sites of each name it holds (PATTERNS['call_statement'] and   *)
(* PATTERNS['function_call']).  A routine name is the pair <<base, event>>:*)
(* <<"cmdSave", "Click">> is the text cmdSave_Click and <<"Helper", "">>   *)
(* is the text Helper.                                                     *)
(***************************************************************************)

\* Bound of the detector model: the number of declarations and call sites in
\* the whole directory.
MaxStmts == 3

NoResult == [absent |-> TRUE]

\* The two files of the directory.
DeadPaths == {"dirA/1", "dirB/2"}

\* The file names the second path may carry: another module, a file with the
\* same name as the first one, or a file the detector does not read.
DeadFileNames == {"Form1.frm", "Module1.bas", "notes.txt"}

\* The event suffixes of PATTERNS['event_handler'].
EventSuffixes == {"Click", "Load", "Change", "KeyPress", "MouseMove", "DblClick",
                  "GotFocus", "LostFocus", "Activate", "Deactivate", "Resize",
                  "Unload", "Initialize", "Terminate"}

\* The routine names that occur in the files.
Tokens == {<<"Helper", "">>, <<"cmdSave", "Click">>, <<"cmdSave", "">>,
           <<"Main", "">>, <<"Len", "">>}

RoutineTypes == {"Sub", "Function"}

\* str.lower() on the words of Tokens.
LowerWord(w) ==
    CASE w = "Helper" -> "helper"
      [] w = "cmdSave" -> "cmdsave"
      [] w = "Main" -> "main"
      [] w = "Len" -> "len"
      [] w = "Click" -> "click"
      [] OTHER -> w

\* match.group(3).lower() of a declaration, match.group(1).lower() of a call.
Lower(tok) == <<LowerWord(tok[1]), LowerWord(tok[2])>>

\* filepath.suffix.lower()
DeadExt(name) ==
    CASE name = "Form1.frm" -> ".frm"
      [] name = "Module1.bas" -> ".bas"
      [] OTHER -> ".txt"

\* filepath.stem
Stem(name) ==
    CASE name = "Form1.frm" -> "Form1"
      [] name = "Module1.bas" -> "Module1"
      [] OTHER -> "notes"

\* ext in ['.frm', '.bas', '.cls', '.ctl']
IsCodeFile(name) == DeadExt(name) \in {".frm", ".bas", ".cls", ".ctl"}

\* PATTERNS['event_handler'] on one declaration: it matches a Sub whose name
\* ends in _<suffix>, and group(2) is the part before the suffix.
event_handler_group2(d) ==
    IF d.type = "Sub" /\ d.name[2] \in EventSuffixes
    THEN {<<LowerWord(d.name[1]), "">>}
    ELSE {}

\* _collect_declarations, the files of order[i..] folded into <<declarations,
\* event_handlers>>.  declarations[func_name] is overwritten by a later file.
RECURSIVE collect_declarations(_, _, _, _)
collect_declarations(dir, order, i, acc) ==
    IF i > Len(order) THEN acc
    ELSE LET f == dir[order[i]]
             found == [n \in {Lower(d.name) : d \in f.decls} |->
                         LET d == CHOOSE e \in f.decls : Lower(e.name) = n
                         IN  [file |-> f.name, type |-> d.type,
                              full_name |-> <<Stem(f.name), d.name>>]]
             handlers == UNION {event_handler_group2(d) : d \in f.decls}
         IN  IF IsCodeFile(f.name)
             THEN collect_declarations(dir, order, i + 1,
                      [declarations |-> found @@ acc.declarations,
                       event_handlers |-> acc.event_handlers \cup handlers])
             ELSE collect_declarations(dir, order, i + 1, acc)

\* The names PATTERNS['call_statement'] and PATTERNS['function_call'] find in
\* a file: its call sites and, because NAME( is also what a declaration looks
\* like, the routines it declares.
CalledIn(f) ==
    {Lower(t) : t \in {u \in Tokens : f.calls[u] > 0}}
        \cup {Lower(d.name) : d \in f.decls}

\* _find_references: references[func_name] is the set of the NAMES of the
\* files that hold a match.  The dictionary is kept as the set of its
\* <<func_name, file name>> pairs.
find_references(dir) ==
    UNION { {<<n, dir[p].name>> : n \in CalledIn(dir[p])} :
              p \in {q \in DOMAIN dir : IsCodeFile(dir[q].name)} }

\* func_name in self.references
Referenced(references, func_name) == \E r \in references : r[1] = func_name

\* self.references[func_name]
RefsOf(references, func_name) == {r[2] : r \in {x \in references : x[1] = func_name}}

vb_builtins == {"left", "right", "mid", "len", "trim", "str", "val", "int",
                "cint", "clng", "cdbl", "csng", "cstr", "cbool", "cdate",
                "format", "msgbox", "inputbox", "isnull", "isnumeric", "isdate",
                "now", "date", "time", "year", "month", "day", "hour", "minute",
                "ucase", "lcase", "instr", "replace", "split", "join",
                "array", "ubound", "lbound", "redim", "shell", "doevents"}

\* _find_dead_functions with the reference test off by one (>= 1 for > 1).
IsDead_AnyReferenceIsLive(func_name, info, references, event_handlers) ==
    /\ func_name \notin event_handlers
    /\ ~ ( /\ Referenced(references, func_name)
           /\ \/ Cardinality(RefsOf(references, func_name)) >= 1
              \/ info.file \notin RefsOf(references, func_name) )
    /\ ~ (func_name[2] = "" /\ func_name[1] \in vb_builtins)
    /\ func_name # <<"main", "">>

\* The test of _find_dead_functions on one declaration: TRUE when it is
\* appended to dead.
IsDead(func_name, info, references, event_handlers) ==
    /\ func_name \notin event_handlers
    /\ ~ ( /\ Referenced(references, func_name)
           /\ \/ Cardinality(RefsOf(references, func_name)) > 1
              \/ info.file \notin RefsOf(references, func_name) )
    /\ ~ (func_name[2] = "" /\ func_name[1] \in vb_builtins)
    /\ func_name # <<"main", "">>

\* _find_dead_functions
find_dead_functions(declarations, references, event_handlers) ==
    { [name |-> declarations[n].full_name, file |-> declarations[n].file,
       type |-> declarations[n].type, func_name |-> n] :
        n \in {m \in DOMAIN declarations :
                  IsDead(m, declarations[m], references, event_handlers)} }

\* _calculate_percentage, rounded down to a whole percent.
calculate_percentage(dead, declarations) ==
    IF Cardinality(DOMAIN declarations) = 0 THEN 0
    ELSE (Cardinality(dead) * 100) \div Cardinality(DOMAIN declarations)

StmtCount(dir) ==
    LET F(p) == Cardinality(dir[p].decls)
                  + dir[p].calls[<<"Helper", "">>] + dir[p].calls[<<"cmdSave", "Click">>]
                  + dir[p].calls[<<"cmdSave", "">>] + dir[p].calls[<<"Main", "">>]
                  + dir[p].calls[<<"Len", "">>]
    IN  F("dirA/1") + F("dirB/2")

\* The directory gets one more routine declaration (a name is declared at
\* most once per file).
WriteDecl ==
    /\ deadResult = NoResult
    /\ StmtCount(srcDir) < MaxStmts
    /\ \E p \in DeadPaths, ty \in RoutineTypes, t \in Tokens :
          /\ \A d \in srcDir[p].decls : d.name # t
          /\ srcDir' = [srcDir EXCEPT ![p].decls = @ \cup {[type |-> ty, name |-> t]}]
    /\ UNCHANGED <<walkOrder, deadResult>>
    /\ UNCHANGED notDead

\* The directory gets one more call site.
WriteCall ==
    /\ deadResult = NoResult
    /\ StmtCount(srcDir) < MaxStmts
    /\ \E p \in DeadPaths, t \in Tokens :
          srcDir' = [srcDir EXCEPT ![p].calls[t] = @ + 1]
    /\ UNCHANGED <<walkOrder, deadResult>>
    /\ UNCHANGED notDead

\* analyze(): the three phases, and the result it returns.  os.walk yields
\* the files in an order of the file system's choosing.
Analyze ==
    /\ deadResult = NoResult
    /\ walkOrder' \in {<<"dirA/1", "dirB/2">>, <<"dirB/2", "dirA/1">>}
    /\ \E c \in {collect_declarations(srcDir, walkOrder', 1,
                     [declarations |-> <<>>, event_handlers |-> {}])} :
       \E references \in {find_references(srcDir)} :
       \E dead \in {find_dead_functions(c.declarations, references, c.event_handlers)} :
          deadResult' =
             [ declarations |-> c.declarations,
               event_handlers |-> c.event_handlers,
               references |-> references,
               dead_functions |-> dead,
               total_functions_declared |-> Cardinality(DOMAIN c.declarations),
               dead_code_percentage |-> calculate_percentage(dead, c.declarations) ]
    /\ UNCHANGED srcDir
    /\ UNCHANGED notDead

DeadInit ==
    /\ \E n2 \in DeadFileNames :
          srcDir = [p \in DeadPaths |->
                      [name |-> IF p = "dirA/1" THEN "Module1.bas" ELSE n2,
                       decls |-> {},
                       calls |-> [t \in Tokens |-> 0]]]
    /\ walkOrder = <<>>
    /\ deadResult = NoResult

DeadNext == WriteDecl \/ WriteCall \/ Analyze

DeadIdle == srcDir = <<>> /\ walkOrder = <<>> /\ deadResult = NoResult

(***************************************************************************)
(*                        vb6_schema_extractor.py                          *)
(*                                                                         *)
(* A file is modelled by the SQL the regular expressions of PATTERNS find  *)
(* in it.  A Python set is modelled by the sequence in which it iterates:  *)
(* adding an element puts it at a place the hash decides and leaves the    *)
(* order of the elements already there alone.                              *)
(***************************************************************************)

\* Bound of the extractor model: the number of SQL statements in the files.
MaxSql == 2
MaxSchemaRuns == 2

None == "None"

TableNames == {"orders", "items"}

\* The column names as the files spell them.
ColumnTokens == {"id", "OrdersId"}

\* col.lower()
LowerCol(c) == IF c = "OrdersId" THEN "ordersid" ELSE c

\* The statements a file may hold: what PATTERNS['select'], ['insert'],
\* ['update'], ['delete'], ['join'] and ['rs_field'] match.
SqlStmts ==
    [kind : {"select"}, table : TableNames, col : ColumnTokens \cup {"*"}]
      \cup [kind : {"insert", "update"}, table : TableNames, col : ColumnTokens]
      \cup [kind : {"delete"}, table : TableNames]
      \cup [kind : {"join"}, joined : {"items"}, table1 : TableNames,
             col1 : {"OrdersId", "total"}, table2 : {"orders"}, col2 : {"id"}]
      \cup [kind : {"rs_field"}, col : ColumnTokens]

\* The entry the defaultdict makes for a table on first access.
NewTable == [columns |-> <<>>, primary_key |-> None, foreign_keys |-> <<>>,
             operations |-> {}, sources |-> {}]

\* self.tables[t]: the entry, made on first access.
Entry(tbls, t) == IF t \in DOMAIN tbls THEN tbls[t] ELSE NewTable

SeqRange(q) == {q[i] : i \in 1..Len(q)}

\* The CRUD operation a statement kind records.
Operation(kind) ==
    CASE kind = "select" -> "READ"
      [] kind = "insert" -> "CREATE"
      [] kind = "update" -> "UPDATE"
      [] kind = "delete" -> "DELETE"

\* The statements of _analyze_file from "Parse SELECT" to "Parse DELETE", for
\* one table: its operations, sources and the columns added to its set.
CrudOf(stmts, t) ==
    {x \in SeqRange(stmts) :
        x.kind \in {"select", "insert", "update", "delete"} /\ x.table = t}

CrudColumns(stmts, t) ==
    {LowerCol(x.col) : x \in {y \in CrudOf(stmts, t) : y.kind # "delete" /\ y.col # "*"}}

\* col1.lower().endswith('id')
EndsWithId(c) == LowerCol(c) \in {"id", "ordersid"}

\* "Infer foreign keys": the joins of the file that append to
\* self.tables[table1]['foreign_keys'].
IsForeignKeyJoin(x, t) ==
    x.kind = "join" /\ x.table1 = t /\ EndsWithId(x.col1) /\ x.table1 # x.joined

ForeignKeyJoins(stmts, t) == SelectSeq(stmts, LAMBDA x : IsForeignKeyJoin(x, t))

\* "Parse JOINs for relationships": the joins of the file, in text order.
Joins(stmts) == SelectSeq(stmts, LAMBDA x : x.kind = "join")

\* The tables the file touches, by a CRUD statement or by a foreign key.
Touched(stmts) ==
    {t \in TableNames : CrudOf(stmts, t) # {} \/ ForeignKeyJoins(stmts, t) # <<>>}

\* "Parse recordset field access": the fields added to every table that has
\* this file among its sources.
RsFields(stmts) == {LowerCol(x.col) : x \in {y \in SeqRange(stmts) : y.kind = "rs_field"}}

\* The orders in which a set may iterate after the elements of added were
\* put into a set that iterated as old.
SetOrders(old, added) ==
    LET all == SeqRange(old) \cup added
        n == Cardinality(all)
    IN  {q \in [1..n -> all] :
            /\ \A i, j \in 1..n : i # j => q[i] # q[j]
            /\ \A i, j \in 1..Len(old) :
                  i < j => \E a, b \in 1..n : a < b /\ q[a] = old[i] /\ q[b] = old[j]}

\* col == 'id' or col == f'{table}id' or col == f'{table}_id'
IsKeyColumn(t, col) ==
    \/ col = "id"
    \/ t = "orders" /\ col \in {"ordersid", "orders_id"}
    \/ t = "items" /\ col \in {"itemsid", "items_id"}

\* "Infer primary keys", for one table: every key column of the set assigns
\* primary_key in turn, so the last one in iteration order stays.
infer_primary_key(t, columns, primary_key) ==
    LET hits == {i \in 1..Len(columns) : IsKeyColumn(t, columns[i])}
    IN  IF hits = {} THEN primary_key
        ELSE columns[CHOOSE i \in hits : \A j \in hits : j <= i]

\* _analyze_file on the next file of the walk.
AnalyzeFile ==
    /\ schemaResult = NoResult
    /\ sqlPos < Len(sqlFiles)
    /\ LET f == sqlFiles[sqlPos + 1]
           dom == DOMAIN tables \cup Touched(f.stmts)
           sources(t) == Entry(tables, t).sources
                            \cup (IF CrudOf(f.stmts, t) # {} THEN {f.name} ELSE {})
           added(t) == CrudColumns(f.stmts, t)
                          \cup (IF f.name \in sources(t) THEN RsFields(f.stmts) ELSE {})
       IN  \E order \in [dom -> UNION {SetOrders(Entry(tables, t).columns, added(t)) : t \in dom}] :
             /\ \A t \in dom : order[t] \in SetOrders(Entry(tables, t).columns, added(t))
             /\ tables' = [t \in dom |->
                   [ columns |-> order[t],
                     primary_key |-> infer_primary_key(t, order[t], Entry(tables, t).primary_key),
                     foreign_keys |-> Entry(tables, t).foreign_keys \o
                         [i \in 1..Len(ForeignKeyJoins(f.stmts, t)) |->
                            LET x == ForeignKeyJoins(f.stmts, t)[i]
                            IN  [column |-> LowerCol(x.col1), references_table |-> x.joined,
                                 references_column |-> x.col2]],
                     operations |-> Entry(tables, t).operations
                                       \cup {Operation(x.kind) : x \in CrudOf(f.stmts, t)},
                     sources |-> sources(t) ]]
             /\ relationships' = relationships \o
                   [i \in 1..Len(Joins(f.stmts)) |->
                      LET x == Joins(f.stmts)[i]
                      IN  [from_table |-> x.table1, from_column |-> LowerCol(x.col1),
                           to_table |-> x.table2, to_column |-> x.col2]]
    /\ sqlPos' = sqlPos + 1
    /\ UNCHANGED <<sqlFiles, schemaResult, schemaRuns>>
    /\ UNCHANGED notSchema

\* The end of analyze(): the result built from self.tables, each set turned
\* into a list by list(), in the order the set iterates.
FinishSchema ==
    /\ schemaResult = NoResult
    /\ sqlPos = Len(sqlFiles)
    /\ \E ops \in [DOMAIN tables -> UNION {SetOrders(<<>>, tables[t].operations) : t \in DOMAIN tables}],
          srcs \in [DOMAIN tables -> UNION {SetOrders(<<>>, tables[t].sources) : t \in DOMAIN tables}] :
          /\ \A t \in DOMAIN tables : /\ ops[t] \in SetOrders(<<>>, tables[t].operations)
                                      /\ srcs[t] \in SetOrders(<<>>, tables[t].sources)
          /\ schemaResult' =
                [ total_tables |-> Cardinality(DOMAIN tables),
                  total_relationships |-> Len(relationships),
                  tables |-> [t \in DOMAIN tables |->
                                [ columns |-> tables[t].columns,
                                  primary_key |-> tables[t].primary_key,
                                  foreign_keys |-> tables[t].foreign_keys,
                                  operations |-> ops[t],
                                  sources |-> srcs[t] ]],
                  relationships |-> relationships ]
    /\ UNCHANGED <<sqlFiles, sqlPos, tables, relationships, schemaRuns>>
    /\ UNCHANGED notSchema

\* The extractor is run once more on the same directory: a new process, a new
\* VB6SchemaExtractor object.
AnalyzeAgain ==
    /\ schemaResult # NoResult
    /\ Len(schemaRuns) + 1 < MaxSchemaRuns
    /\ schemaRuns' = Append(schemaRuns, schemaResult)
    /\ sqlPos' = 0
    /\ tables' = <<>>
    /\ relationships' = <<>>
    /\ schemaResult' = NoResult
    /\ UNCHANGED sqlFiles
    /\ UNCHANGED notSchema

\* The directory gets one more SQL statement, in one of its files.
WriteSql ==
    /\ sqlPos = 0
    /\ schemaRuns = <<>>
    /\ Len(sqlFiles[1].stmts) + Len(sqlFiles[2].stmts) < MaxSql
    /\ \E i \in 1..2, x \in SqlStmts :
          sqlFiles' = [sqlFiles EXCEPT ![i].stmts = Append(@, x)]
    /\ UNCHANGED <<sqlPos, tables, relationships, schemaResult, schemaRuns>>
    /\ UNCHANGED notSchema

SchemaInit ==
    /\ sqlFiles = << [name |-> "Form1.frm", stmts |-> <<>>],
                     [name |-> "Module1.bas", stmts |-> <<>>] >>
    /\ sqlPos = 0
    /\ tables = <<>>
    /\ relationships = <<>>
    /\ schemaResult = NoResult
    /\ schemaRuns = <<>>

SchemaNext == WriteSql \/ AnalyzeFile \/ FinishSchema \/ AnalyzeAgain

SchemaIdle ==
    /\ sqlFiles = <<>> /\ sqlPos = 0 /\ tables = <<>> /\ relationships = <<>>
    /\ schemaResult = NoResult /\ schemaRuns = <<>>

(***************************************************************************)
(*                        vb6_dependency_graph.py                          *)
(*                                                                         *)
(* A file is modelled by its stem and by the reference texts the regular   *)
(* expressions of PATTERNS find in it: "target.Member", "target.Show" and  *)
(* "Load target".                                                          *)
(***************************************************************************)

\* Bound of the graph model: the number of reference texts in the files.
MaxRefs == 3

\* filepath.stem.lower() of the files: a form, a module and a class.
NodeNames == {"frmmain", "modutil", "clsdata"}

RefForms == {"member", "show", "load"}

\* The node type _collect_nodes derives from the extension.
NodeType(n) ==
    CASE n = "frmmain" -> "Form"
      [] n = "modutil" -> "Module"
      [] n = "clsdata" -> "Class"

\* The edge types under which PATTERNS count one reference text.
EdgeTypes(target, form) ==
    (IF form \in {"member", "show"} /\ target = "modutil" THEN {"calls"} ELSE {})
      \cup (IF form \in {"member", "show"} /\ target = "frmmain" THEN {"references"} ELSE {})
      \cup (IF form = "show" THEN {"shows"} ELSE {})
      \cup (IF form = "load" THEN {"loads"} ELSE {})

\* _collect_nodes: self.nodes, in insertion order.
collect_nodes(files) == files

\* _find_edges: self.edge_counts, the (source, target, type) keys with the
\* number of matches that passed "target != source and target in self.nodes".
find_edges(files, texts) ==
    LET nodes == SeqRange(files)
        matches(s, t, ty, form) ==
            IF ty \in EdgeTypes(t, form) THEN CopiesIn(<<s, t, form>>, texts) ELSE 0
        count(s, t, ty) ==
            matches(s, t, ty, "member") + matches(s, t, ty, "show")
               + matches(s, t, ty, "load")
        passed == {k \in BagToSet(texts) :
                      k[1] \in nodes /\ k[2] # k[1] /\ k[2] \in nodes}
        keys == UNION {{<<k[1], k[2], ty>> : ty \in EdgeTypes(k[2], k[3])} : k \in passed}
    IN  [k \in keys |-> count(k[1], k[2], k[3])]

\* An adjacency list built from the edges of type "calls" alone.
adj_CallsOnly(edge_counts, node) ==
    {k[2] : k \in {e \in DOMAIN edge_counts : e[1] = node /\ e[3] = "calls"}}

\* "Build adjacency list": adj[source], a set.
adj(edge_counts, node) == {k[2] : k \in {e \in DOMAIN edge_counts : e[1] = node}}

\* The orders in which the sets of adj may iterate.
AdjOrders(edge_counts, nodes) ==
    {o \in [nodes -> UNION {SetOrders(<<>>, adj(edge_counts, n)) : n \in nodes}] :
        \A n \in nodes : o[n] \in SetOrders(<<>>, adj(edge_counts, n))}

\* path.index(neighbor)
Index(path, x) == CHOOSE i \in 1..Len(path) : path[i] = x /\ \A j \in 1..(i-1) : path[j] # x

\* "Found cycle" with the closing node left out.
FoundCycle_Open(path, neighbor) == SubSeq(path, Index(path, neighbor), Len(path))

\* "Found cycle": path[cycle_start:] + [neighbor]
FoundCycle(path, neighbor) ==
    SubSeq(path, Index(path, neighbor), Len(path)) \o <<neighbor>>

\* dfs(node) on the search state st = [visited, rec_stack, path]; the value
\* is [result, st], the returned cycle or None and the state it leaves.
RECURSIVE dfs(_, _, _), dfs_neighbors(_, _, _, _)
dfs(node, st, order) ==
    dfs_neighbors(node, 1,
                  [visited |-> st.visited \cup {node},
                   rec_stack |-> st.rec_stack \cup {node},
                   path |-> Append(st.path, node)],
                  order)

\* "for neighbor in adj[node]" from the i-th neighbor on.
dfs_neighbors(node, i, st, order) ==
    IF i > Len(order[node])
    THEN [result |-> None,
          st |-> [visited |-> st.visited,
                  rec_stack |-> st.rec_stack \ {node},
                  path |-> SubSeq(st.path, 1, Len(st.path) - 1)]]
    ELSE LET neighbor == order[node][i]
         IN  IF neighbor \notin st.visited
             THEN LET r == dfs(neighbor, st, order)
                  IN  IF r.result # None THEN r
                      ELSE dfs_neighbors(node, i + 1, r.st, order)
             ELSE IF neighbor \in st.rec_stack
             THEN [result |-> FoundCycle(st.path, neighbor), st |-> st]
             ELSE dfs_neighbors(node, i + 1, st, order)

\* "for node in self.nodes" from the i-th node on.
RECURSIVE detect_cycles_from(_, _, _, _, _)
detect_cycles_from(nodes, i, st, cycles, order) ==
    IF i > Len(nodes) THEN cycles
    ELSE IF nodes[i] \in st.visited
         THEN detect_cycles_from(nodes, i + 1, st, cycles, order)
         ELSE LET r == dfs(nodes[i], st, order)
              IN  detect_cycles_from(nodes, i + 1, r.st,
                      IF r.result # None THEN Append(cycles, r.result) ELSE cycles,
                      order)

\* _detect_cycles, with the sets of adj iterating as order says.
detect_cycles(nodes, order) ==
    detect_cycles_from(nodes, 1, [visited |-> {}, rec_stack |-> {}, path |-> <<>>],
                       <<>>, order)

\* incoming[node] + outgoing[node] of _identify_hubs: the counts of the keys
\* of edge_counts that have the node as target (side 2) or as source (side 1).
EdgeWeight(edge_counts, node, side) ==
    BagCardinality([k \in {e \in DOMAIN edge_counts : e[side] = node} |-> edge_counts[k]])

\* "if total > 3" in place of the threshold of _identify_hubs.
IsHub_Above(total) == total > 3

\* "if total >= 3:  # Threshold for being a hub"
IsHub(total) == total >= 3

\* sorted(hubs, key=total, reverse=True): a stable sort, from total t down.
RECURSIVE SortByTotal(_, _)
SortByTotal(hubs, t) ==
    IF t < 0 THEN <<>>
    ELSE SelectSeq(hubs, LAMBDA h : h.total = t) \o SortByTotal(hubs, t - 1)

\* _identify_hubs
identify_hubs(nodes, edge_counts) ==
    LET incoming(n) == EdgeWeight(edge_counts, n, 2)
        outgoing(n) == EdgeWeight(edge_counts, n, 1)
        hub(n) == [ name |-> n,
                    type |-> NodeType(n),
                    incoming |-> incoming(n),
                    outgoing |-> outgoing(n),
                    total |-> incoming(n) + outgoing(n),
                    recommendation |->
                        IF incoming(n) > outgoing(n)
                        THEN "Migrate early - many dependents"
                        ELSE "Complex - many dependencies" ]
        all == [i \in 1..Len(nodes) |-> hub(nodes[i])]
    IN  SortByTotal(SelectSeq(all, LAMBDA h : IsHub(h.total)),
                    2 * BagCardinality(edge_counts))

\* analyze(): nodes, edges, cycles and the result built from them.
AnalyzeGraph ==
    /\ graphResult = NoResult
    /\ \E edge_counts \in {find_edges(graphFiles, refTexts)} :
         \E order \in AdjOrders(edge_counts, SeqRange(graphFiles)) :
            graphResult' =
                [ nodes |-> collect_nodes(graphFiles),
                  edge_counts |-> edge_counts,
                  total_nodes |-> Len(graphFiles),
                  total_edges |-> Cardinality(DOMAIN edge_counts),
                  circular_dependencies |->
                      detect_cycles(collect_nodes(graphFiles), order),
                  hub_modules |->
                      identify_hubs(collect_nodes(graphFiles), edge_counts) ]
    /\ UNCHANGED <<graphFiles, refTexts>>
    /\ UNCHANGED notGraph

RefKeys == NodeNames \X NodeNames \X RefForms

\* A file of the directory gets one more reference text.
WriteReference ==
    /\ graphResult = NoResult
    /\ BagCardinality(refTexts) < MaxRefs
    /\ \E k \in RefKeys :
          /\ k[1] \in SeqRange(graphFiles)
          /\ refTexts' = refTexts (+) SetToBag({k})
    /\ UNCHANGED <<graphFiles, graphResult>>
    /\ UNCHANGED notGraph

GraphInit ==
    /\ graphFiles \in UNION {SetOrders(<<>>, ns) : ns \in SUBSET NodeNames}
    /\ refTexts = EmptyBag
    /\ graphResult = NoResult

GraphNext == WriteReference \/ AnalyzeGraph

GraphIdle == graphFiles = <<>> /\ refTexts = EmptyBag /\ graphResult = NoResult

(***************************************************************************)
(*          test_failure_analyzer.py and repair_report_generator.py        *)
(*                                                                         *)
(* The output directory holds error_history.json and the repair plans.  A  *)
(* run of the analyzer is given the failures its parser found in the test  *)
(* output.                                                                 *)
(***************************************************************************)

\* Bounds of the repair model: the --max-iterations argument, the number of
\* analyzer runs and the number of failures in one test output.
max_iterations_per_error == 2
MaxAnalyzerRuns == 3
MaxFailures == 2

\* The failures the parser may return: an auto-fixable one and one that is not.
TestFailures ==
    { [test_name |-> "t1", file_path |-> "app.ts", line_number |-> 10,
       error_type |-> "property_not_exist"],
      [test_name |-> "t2", file_path |-> "app.ts", line_number |-> 20,
       error_type |-> "element_not_found"] }

FailureLists == UNION {[1..n -> TestFailures] : n \in 0..MaxFailures}

\* REPAIR_STRATEGIES.get(error_type, manual review)
REPAIR_STRATEGIES(error_type) ==
    CASE error_type \in {"property_not_exist", "cannot_find_module",
                         "undefined_signal", "missing_provider"} ->
            [priority |-> "high", auto_fixable |-> TRUE]
      [] error_type \in {"element_not_found", "expect_mismatch"} ->
            [priority |-> "medium", auto_fixable |-> FALSE]
      [] error_type = "zone_change_detection" ->
            [priority |-> "critical", auto_fixable |-> TRUE]
      [] OTHER -> [priority |-> "low", auto_fixable |-> FALSE]

\* RepairPlanner._generate_error_id
generate_error_id(failure) ==
    <<failure.file_path, failure.line_number, failure.error_type>>

\* error_history.get(error_id, 0)
HistoryGet(history, error_id) ==
    IF error_id \in DOMAIN history THEN history[error_id] ELSE 0

\* error_history[error_id] = count
HistoryPut(history, error_id, count) ==
    [k \in DOMAIN history \cup {error_id} |->
        IF k = error_id THEN count ELSE history[k]]

\* RepairPlanner._load_error_history
load_error_history(file) == IF file = NoFile THEN <<>> ELSE file

\* An iteration number that starts again at 1 in every run.
get_current_iteration_Restarting(plans) == 1

\* RepairPlanner._get_current_iteration
get_current_iteration(plans) ==
    IF DOMAIN plans = {} THEN 1
    ELSE (CHOOSE n \in DOMAIN plans : \A k \in DOMAIN plans : k <= n) + 1

\* "if current_count > max" in place of the check of create_repair_plan.
MaxReached_OffByOne(current_count, max) == current_count > max

\* create_repair_plan: "if current_count >= self.max_iterations_per_error"
MaxReached(current_count, max) == current_count >= max

\* The loop of create_repair_plan from the i-th failure on; acc holds
\* error_history, repairs and skipped_max_iter.
RECURSIVE plan_failures(_, _, _, _)
plan_failures(failures, i, acc, max) ==
    IF i > Len(failures) THEN acc
    ELSE LET failure == failures[i]
             error_id == generate_error_id(failure)
             current_count == HistoryGet(acc.error_history, error_id)
         IN  IF MaxReached(current_count, max)
             THEN plan_failures(failures, i + 1,
                     [acc EXCEPT !.skipped = Append(@,
                        [test_name |-> failure.test_name, error_id |-> error_id,
                         iterations |-> current_count,
                         status |-> "MAX_ITERATIONS_REACHED"])], max)
             ELSE plan_failures(failures, i + 1,
                     [acc EXCEPT
                        !.error_history = HistoryPut(@, error_id, current_count + 1),
                        !.repairs = Append(@,
                           [test_name |-> failure.test_name,
                            file_path |-> failure.file_path,
                            line_number |-> failure.line_number,
                            error_type |-> failure.error_type,
                            error_id |-> error_id,
                            iteration_for_error |-> current_count + 1,
                            max_iterations |-> max,
                            priority |-> REPAIR_STRATEGIES(failure.error_type).priority,
                            auto_fixable |->
                                REPAIR_STRATEGIES(failure.error_type).auto_fixable])],
                     max)

\* repairs.sort(key=priority_order): a stable sort.
SortByPriority(repairs) ==
    SelectSeq(repairs, LAMBDA r : r.priority = "critical")
      \o SelectSeq(repairs, LAMBDA r : r.priority = "high")
      \o SelectSeq(repairs, LAMBDA r : r.priority = "medium")
      \o SelectSeq(repairs, LAMBDA r : r.priority = "low")

\* RepairPlanner.create_repair_plan
create_repair_plan(failures, error_history, max) ==
    LET acc == plan_failures(failures, 1,
                  [error_history |-> error_history, repairs |-> <<>>,
                   skipped |-> <<>>], max)
    IN  [acc EXCEPT !.repairs = SortByPriority(@)]

\* main() of test_failure_analyzer with --max-iterations max, on a test output
\* whose failures are one of lists.
AnalyzerMain(max, lists) ==
    /\ analyzerRuns' = analyzerRuns + 1
    /\ \E failures \in lists :
         IF failures = <<>>
         THEN /\ lastRun' = [exit |-> 0, failures |-> failures, iteration |-> 0,
                              before |-> <<>>, repairs |-> <<>>, skipped |-> <<>>]
              /\ UNCHANGED <<historyFile, planFiles>>
         ELSE \E iteration \in {get_current_iteration(planFiles)} :
              \E before \in {load_error_history(historyFile)} :
              \E plan \in {create_repair_plan(failures, before, max)} :
                 /\ planFiles' = [n \in DOMAIN planFiles \cup {iteration} |->
                        IF n = iteration
                        THEN [iteration |-> iteration,
                              total_failures |-> Len(failures),
                              repairs |-> plan.repairs,
                              skipped_max_iterations |-> plan.skipped]
                        ELSE planFiles[n]]
                 /\ historyFile' = plan.error_history
                 /\ lastRun' = [exit |-> 1, failures |-> failures,
                                iteration |-> iteration, before |-> before,
                                repairs |-> plan.repairs, skipped |-> plan.skipped]
    /\ UNCHANGED report
    /\ UNCHANGED notRepair

\* A run of the analyzer with --max-iterations max_iterations_per_error.
RunAnalyzer ==
    /\ report = NoResult
    /\ analyzerRuns < MaxAnalyzerRuns
    /\ AnalyzerMain(max_iterations_per_error, FailureLists)

\* The default of --max-iterations and of RepairPlanner.__init__.
DefaultMaxIterations == 5

\* The number of analyzer runs with the default --max-iterations.
MaxDefaultRuns == 4

\* Test outputs that report the auto-fixable failure any number of times, and
\* after it the other failure or not.
RepeatedFailureLists ==
    {f \in FailureLists :
        \A i \in 1..(Len(f) - 1) : f[i].error_type = "property_not_exist"}

\* A run of the analyzer with the default --max-iterations.
RunAnalyzerDefault ==
    /\ report = NoResult
    /\ analyzerRuns < MaxDefaultRuns
    /\ AnalyzerMain(DefaultMaxIterations, RepeatedFailureLists)

\* RepairReportGenerator.max_iterations_per_error
report_max_iterations_per_error == 5

\* RepairReportGenerator._generate_error_id
report_generate_error_id(repair) ==
    <<repair.file_path, repair.line_number, repair.error_type>>

\* The repairs of all plan files up to the n-th, in the order of
\* sorted(glob(...)).
RECURSIVE AllRepairs(_, _)
AllRepairs(plans, n) ==
    IF n = 0 THEN <<>>
    ELSE AllRepairs(plans, n - 1) \o (IF n \in DOMAIN plans THEN plans[n].repairs ELSE <<>>)

\* The number of the last plan file, 0 without plan files.
LastIteration(plans) ==
    IF DOMAIN plans = {} THEN 0
    ELSE CHOOSE n \in DOMAIN plans : \A k \in DOMAIN plans : k <= n

\* The last plan file of sorted(glob(...)), as a set of one or none.
LastPlan(plans) == {n \in DOMAIN plans : \A k \in DOMAIN plans : k <= n}

\* RepairReportGenerator._determine_status
determine_status(error_id, history, plans) ==
    IF ~history.auto_fixable THEN "SKIPPED"
    ELSE IF history.iterations >= report_max_iterations_per_error THEN "FAILED"
    ELSE IF \E n \in LastPlan(plans) : \E i \in 1..Len(plans[n].repairs) :
               report_generate_error_id(plans[n].repairs[i]) = error_id
         THEN "IN_PROGRESS"
         ELSE "REPAIRED"

\* RepairReportGenerator.load_repair_history: the records, by error id.
load_repair_history(plans) ==
    LET all == AllRepairs(plans, LastIteration(plans))
        ids == {report_generate_error_id(all[i]) : i \in 1..Len(all)}
        of(id) == SelectSeq(all, LAMBDA r : report_generate_error_id(r) = id)
    IN  [id \in ids |->
           LET history == [iterations |-> Len(of(id)),
                           auto_fixable |-> of(id)[1].auto_fixable]
           IN  [error_id |-> id, iterations |-> history.iterations,
                status |-> determine_status(id, history, plans)]]

\* The number of records with this status.
StatusCount(records, status) ==
    Cardinality({id \in DOMAIN records : records[id].status = status})

\* RepairReportGenerator.calculate_summary
calculate_summary(records) ==
    [ total_errors |-> Cardinality(DOMAIN records),
      repaired |-> StatusCount(records, "REPAIRED"),
      failed |-> StatusCount(records, "FAILED"),
      skipped |-> StatusCount(records, "SKIPPED") ]

\* main() of repair_report_generator on the output directory.
GenerateReport ==
    /\ report = NoResult
    /\ \E records \in {load_repair_history(planFiles)} :
          report' = [records |-> records, summary |-> calculate_summary(records)]
    /\ UNCHANGED <<historyFile, planFiles, analyzerRuns, lastRun>>
    /\ UNCHANGED notRepair

RepairInit ==
    /\ historyFile = NoFile
    /\ planFiles = <<>>
    /\ analyzerRuns = 0
    /\ lastRun = NoResult
    /\ report = NoResult

RepairNext == RunAnalyzer \/ GenerateReport

\* The analyzer with its default maximum, followed by the report generator.
ReportNext == RunAnalyzerDefault \/ GenerateReport

RepairIdle == RepairInit

(***************************************************************************)
(*                          coverage_validator.py                          *)
(*                                                                         *)
(* The coverage files sit at the paths the validator looks at by default,  *)
(* analysis/coverage/backend and analysis/coverage/frontend; --backend and *)
(* --frontend, when given, name these paths.                               *)
(***************************************************************************)

Layers == {"Backend", "Frontend"}

\* The content of a file that json.loads rejects.
Malformed == [malformed |-> TRUE]

\* The defaults of --threshold and --branch-threshold.
DefaultThreshold == 80
DefaultBranchThreshold == 70

\* The percentages a coverage summary may hold.
LinePcts == {79, 80}
BranchPcts == {69, 70, 79}

Totals == [lines : LinePcts, statements : LinePcts, functions : LinePcts,
           branches : BranchPcts]

MetricNames == <<"lines", "statements", "functions", "branches">>

\* ThresholdConfig(lines, statements, functions = threshold; branches).
ThresholdConfig(threshold, branch_threshold) ==
    [lines |-> threshold, statements |-> threshold, functions |-> threshold,
     branches |-> branch_threshold]

\* validate_coverage_file: [ok, results], results being the ValidationResult
\* list or NoResult when the method returned before storing one.
validate_coverage_file(file, thresholds) ==
    IF file = NoFile \/ file = Malformed
    THEN [ok |-> FALSE, results |-> NoResult]
    ELSE LET results == [i \in 1..4 |->
                            [metric |-> MetricNames[i],
                             actual |-> file[MetricNames[i]],
                             threshold |-> thresholds[MetricNames[i]],
                             passed |-> file[MetricNames[i]] >= thresholds[MetricNames[i]]]]
         IN  [ok |-> \A i \in 1..4 : results[i].passed, results |-> results]

\* validate_all: the returned verdict and self.results, for the layers whose
\* file argument is set.
validate_all(files, given, thresholds) ==
    LET v(layer) == validate_coverage_file(files[layer], thresholds)
    IN  [overall_pass |-> \A layer \in given : v(layer).ok,
         results |-> [layer \in {l \in given : v(l).results # NoResult} |->
                         v(layer).results]]

\* print_summary: the overall verdict over self.results.
print_summary(results) ==
    \A layer \in DOMAIN results : \A i \in 1..4 : results[layer][i].passed

\* "if args.strict and not passed" without the test of args.strict.
ExitCode_IgnoresStrict(strict, passed) == IF ~passed THEN 1 ELSE 0

\* main: "Return appropriate exit code".
ExitCode(strict, passed) == IF strict /\ ~passed THEN 1 ELSE 0

\* main: the layers whose file argument is set, given on the command line or
\* found at the default paths.
GivenLayers(args, files) ==
    IF args.layers # {} THEN args.layers
    ELSE {layer \in Layers : files[layer] # NoFile}

\* main() of coverage_validator.
RunValidator ==
    /\ covRun = NoResult
    /\ \E args \in [layers : SUBSET Layers, strict : BOOLEAN] :
       \E given \in {GivenLayers(args, covFiles)} :
          IF given = {}
          THEN covRun' = [args |-> args, given |-> given, exit |-> 1,
                          overall_pass |-> FALSE, results |-> <<>>, passed |-> FALSE]
          ELSE \E v \in {validate_all(covFiles, given,
                             ThresholdConfig(DefaultThreshold, DefaultBranchThreshold))} :
                  covRun' = [args |-> args, given |-> given,
                             exit |-> ExitCode(args.strict, print_summary(v.results)),
                             overall_pass |-> v.overall_pass,
                             results |-> v.results,
                             passed |-> print_summary(v.results)]
    /\ UNCHANGED covFiles
    /\ UNCHANGED notCov

\* A test run writes the coverage summary of a layer, or something else does.
WriteCoverage ==
    /\ covRun = NoResult
    /\ \E layer \in Layers, content \in Totals \cup {Malformed} :
          covFiles' = [covFiles EXCEPT ![layer] = content]
    /\ UNCHANGED covRun
    /\ UNCHANGED notCov

CovInit ==
    /\ covFiles = [layer \in Layers |-> NoFile]
    /\ covRun = NoResult

CovNext == WriteCoverage \/ RunValidator

CovIdle == covFiles = <<>> /\ covRun = NoResult

(***************************************************************************)
(*                   a11y_audit.py and security_audit.py                   *)
(*                                                                         *)
(* Both tools walk a root directory with rglob.  A file is modelled by the *)
(* subdirectory of the root it is in, its extension and what the rules can *)
(* find in it: the number of <h1> tags of a template, and whether a script *)
(* holds a line with "innerHTML =".  The directory above the backend root  *)
(* holds no package.json.                                                  *)
(***************************************************************************)

\* Bound of the audit model: the number of files under the roots.
MaxAuditFiles == 2

AuditRoots == {"frontend", "backend"}

\* The subdirectory of the root a file is in; "" is the root itself.
SubDirs == {"", "app", "dist"}

AuditFiles ==
    {f \in [dir : SubDirs, ext : {".html", ".ts"}, h1 : 0..2, unsafe : BOOLEAN] :
        /\ f.ext = ".ts" => f.h1 = 0
        /\ f.ext = ".html" => ~f.unsafe}

\* A directory that does not exist.
NoDir == [exists |-> FALSE, files |-> {}, above |-> ""]

\* The directory a root lies in, as the path given on the command line
\* spells it: work/frontend, dist/frontend.
RootParents == {"work", "dist"}

\* skip_dirs of scan_directory
skip_dirs == {"node_modules", ".git", "dist", "coverage", ".angular"}

\* file_path.parts for a file under the root: rglob yields paths that begin
\* with the path of the root as it was given.
PathParts(above, root, f) ==
    IF f.dir = "" THEN {above, root, "file"} ELSE {above, root, f.dir, "file"}

\* scan_directory: the files handed to scan_file.
scan_directory(root, dirs, extensions) ==
    IF ~dirs[root].exists THEN {}
    ELSE {f \in dirs[root].files :
             /\ PathParts(dirs[root].above, root, f) \cap skip_dirs = {}
             /\ f.ext \in extensions}

\* A11yAuditor.scan_file: the findings for one file.
a11y_scan_file(root, f) ==
    IF f.ext = ".html" /\ f.h1 # 1 /\ f.h1 > 0
    THEN {[rule_id |-> "A11Y-005", severity |-> "CRITICAL", root |-> root, file |-> f]}
    ELSE {}

\* SecurityAuditor.scan_file with CRITICAL_RULES: the findings for one file.
security_scan_file(root, f) ==
    IF f.ext \in {".ts", ".html"} /\ f.unsafe
    THEN {[rule_id |-> "SEC-001", severity |-> "CRITICAL", root |-> root, file |-> f]}
    ELSE {}

\* generate_report of both auditors; the verdict is 'wcag_compliant' in the
\* one and 'passed' in the other.
generate_report(files_scanned, findings) ==
    [ files_scanned |-> files_scanned,
      total_findings |-> Cardinality(findings),
      critical |-> Cardinality({x \in findings : x.severity = "CRITICAL"}),
      warnings |-> Cardinality({x \in findings : x.severity = "WARNING"}),
      verdict |-> {x \in findings : x.severity = "CRITICAL"} = {},
      findings |-> findings ]

\* main() of a11y_audit with --input naming the root.
RunA11yAudit ==
    /\ auditRun = NoResult
    /\ \E input \in AuditRoots :
       \E scanned \in {scan_directory(input, auditDirs, {".html", ".css", ".scss"})} :
       \E r \in {generate_report(Cardinality(scanned),
                     UNION {a11y_scan_file(input, f) : f \in scanned})} :
          auditRun' = [tool |-> "a11y_audit", roots |-> {input}, scanned |-> scanned,
                       report |-> r, exit |-> IF r.verdict THEN 0 ELSE 1]
    /\ UNCHANGED auditDirs
    /\ UNCHANGED notAudit

\* main() of security_audit with --frontend and --backend naming the roots.
RunSecurityAudit ==
    /\ auditRun = NoResult
    /\ \E front \in {scan_directory("frontend", auditDirs, {".ts", ".js", ".html", ".json"})} :
       \E back \in {scan_directory("backend", auditDirs, {".ts", ".js", ".html", ".json"})} :
       \E r \in {generate_report(Cardinality(front) + Cardinality(back),
                     UNION {security_scan_file("frontend", f) : f \in front}
                        \cup UNION {security_scan_file("backend", f) : f \in back})} :
          auditRun' = [tool |-> "security_audit", roots |-> AuditRoots,
                       scanned |-> front \cup back,
                       report |-> r, exit |-> IF r.verdict THEN 0 ELSE 1]
    /\ UNCHANGED auditDirs
    /\ UNCHANGED notAudit

\* The number of files under the roots.
AuditFileCount ==
    Cardinality(auditDirs["frontend"].files) + Cardinality(auditDirs["backend"].files)

\* A root directory is created.
MakeAuditDir ==
    /\ auditRun = NoResult
    /\ \E root \in AuditRoots, above \in RootParents :
          /\ ~auditDirs[root].exists
          /\ auditDirs' = [auditDirs EXCEPT ![root].exists = TRUE,
                                            ![root].above = above]
    /\ UNCHANGED auditRun
    /\ UNCHANGED notAudit

\* A file is written under a root directory.
WriteAuditFile ==
    /\ auditRun = NoResult
    /\ AuditFileCount < MaxAuditFiles
    /\ \E root \in AuditRoots, f \in AuditFiles :
          /\ auditDirs[root].exists
          /\ f \notin auditDirs[root].files
          /\ auditDirs' = [auditDirs EXCEPT ![root].files = @ \cup {f}]
    /\ UNCHANGED auditRun
    /\ UNCHANGED notAudit

AuditInit ==
    /\ auditDirs = [root \in AuditRoots |-> NoDir]
    /\ auditRun = NoResult

AuditNext == MakeAuditDir \/ WriteAuditFile \/ RunA11yAudit \/ RunSecurityAudit

AuditIdle == auditDirs = <<>> /\ auditRun = NoResult

(***************************************************************************)
(*             contract_validator.py and html_report_generator.py          *)
(*                                                                         *)
(* A path is the sequence of its segments.  The calls of the services are  *)
(* modelled by their method and normalized URL.                            *)
(***************************************************************************)

\* Bound of the model: the number of swagger endpoints plus frontend calls.
MaxContractItems == 2

ApiPaths == { <<"api", "users">>, <<"api", "user">>, <<"api", "users", "{id}">> }

HttpMethods == {"GET", "POST"}

Endpoints == [path : ApiPaths, method : HttpMethods]

HttpCalls == [url : ApiPaths, method : HttpMethods]

\* sw.startswith('{')
IsPlaceholder(segment) == segment = "{id}"

\* SwaggerParser.parse: the endpoints, none when the file cannot be parsed.
swagger_parse(file) ==
    IF file = NoFile \/ file = Malformed THEN {} ELSE file.endpoints

\* ContractValidator._path_matches
path_matches(swagger_path, frontend_path) ==
    /\ Len(swagger_path) = Len(frontend_path)
    /\ \A i \in 1..Len(swagger_path) :
          \/ IsPlaceholder(swagger_path[i])
          \/ IsPlaceholder(frontend_path[i])
          \/ swagger_path[i] = frontend_path[i]

\* ContractValidator._find_matching_endpoint, as the set of endpoints it may
\* return; empty when it returns None.
find_matching_endpoint(url, method, endpoints) ==
    {ep \in endpoints : ep.method = method /\ path_matches(ep.path, url)}

\* ContractValidator._find_similar_endpoint, as the set of endpoints it may
\* return; empty when it returns None.
find_similar_endpoint(url, endpoints) ==
    LET score(ep) == Cardinality({i \in 1..Len(url) :
                          ep.path[i] = url[i] \/ IsPlaceholder(ep.path[i])})
    IN  {ep \in endpoints :
            /\ Len(ep.path) = Len(url)
            /\ score(ep) > 0
            /\ score(ep) >= Len(url) - 1}

\* ContractValidator.validate: the findings.
validate(swagger_endpoints, frontend_calls) ==
    LET matched(call) == find_matching_endpoint(call.url, call.method, swagger_endpoints)
        not_found == {call \in frontend_calls : matched(call) = {}}
        \* reached only past the "continue" of CT-001, that is with a match
        typos == {call \in frontend_calls \ not_found :
                     /\ matched(call) = {}
                     /\ find_similar_endpoint(call.url, swagger_endpoints) # {}}
        uncalled == {ep \in swagger_endpoints :
                        ~\E c \in frontend_calls :
                            c.method = ep.method /\ path_matches(ep.path, c.url)}
    IN  {[rule_id |-> "CT-001", severity |-> "CRITICAL", about |-> c] : c \in not_found}
          \cup {[rule_id |-> "CT-006", severity |-> "CRITICAL", about |-> c] : c \in typos}
          \cup {[rule_id |-> "CT-005", severity |-> "INFO",
                  about |-> [url |-> ep.path, method |-> ep.method]] : ep \in uncalled}

\* main() of contract_validator.
RunContractValidator ==
    /\ downRun = NoResult
    /\ \E endpoints \in {swagger_parse(swaggerFile)} :
       \E findings \in {validate(endpoints, serviceCalls)} :
       \E passed \in {{f \in findings : f.severity = "CRITICAL"} = {}} :
          downRun' = [tool |-> "contract_validator", raised |-> FALSE,
                      exit |-> IF passed THEN 0 ELSE 1,
                      passed |-> passed, findings |-> findings]
    /\ UNCHANGED <<swaggerFile, serviceCalls, analysisJson>>
    /\ UNCHANGED notDown

\* main() of html_report_generator: json.load is not guarded, so a file that
\* is no JSON ends the run with the exception.
RunHtmlReport ==
    /\ downRun = NoResult
    /\ downRun' =
          IF analysisJson = NoFile
          THEN [tool |-> "html_report_generator", raised |-> FALSE, exit |-> 1,
                passed |-> FALSE, findings |-> {}]
          ELSE IF analysisJson = Malformed
          THEN [tool |-> "html_report_generator", raised |-> TRUE, exit |-> 1,
                passed |-> FALSE, findings |-> {}]
          ELSE [tool |-> "html_report_generator", raised |-> FALSE, exit |-> 0,
                passed |-> TRUE, findings |-> {}]
    /\ UNCHANGED <<swaggerFile, serviceCalls, analysisJson>>
    /\ UNCHANGED notDown

\* The number of endpoints in the swagger file.
EndpointCount ==
    IF swaggerFile = NoFile \/ swaggerFile = Malformed THEN 0
    ELSE Cardinality(swaggerFile.endpoints)

\* The backend writes its swagger file, or something that is no JSON.
WriteSwagger ==
    /\ downRun = NoResult
    /\ \/ swaggerFile' = Malformed
       \/ /\ EndpointCount + Cardinality(serviceCalls) < MaxContractItems
          /\ \E ep \in Endpoints :
                swaggerFile' = [endpoints |-> swagger_parse(swaggerFile) \cup {ep}]
    /\ UNCHANGED <<serviceCalls, analysisJson, downRun>>
    /\ UNCHANGED notDown

\* A service gets one more HTTP call.
WriteServiceCall ==
    /\ downRun = NoResult
    /\ EndpointCount + Cardinality(serviceCalls) < MaxContractItems
    /\ \E call \in HttpCalls \ serviceCalls : serviceCalls' = serviceCalls \cup {call}
    /\ UNCHANGED <<swaggerFile, analysisJson, downRun>>
    /\ UNCHANGED notDown

\* The analysis JSON is written, whole or cut short.
WriteAnalysisJson ==
    /\ downRun = NoResult
    /\ analysisJson = NoFile
    /\ analysisJson' \in {Malformed, [valid |-> TRUE]}
    /\ UNCHANGED <<swaggerFile, serviceCalls, downRun>>
    /\ UNCHANGED notDown

DownInit ==
    /\ swaggerFile = NoFile
    /\ serviceCalls = {}
    /\ analysisJson = NoFile
    /\ downRun = NoResult

DownNext ==
    WriteSwagger \/ WriteServiceCall \/ WriteAnalysisJson
       \/ RunContractValidator \/ RunHtmlReport

DownIdle == DownInit

(***************************************************************************)
(*        test_failure_analyzer.py: invocations that run at once           *)
(*                                                                         *)
(* Several invocations of main() work on one output directory.  Each step  *)
(* below is one access of an invocation to the directory; the code takes   *)
(* no lock, so the steps of different invocations interleave freely.  The  *)
(* invocations parse the same test output.                                 *)
(***************************************************************************)

\* Bound of the race model: the number of invocations.
MaxPlanners == 2

Planners == 1..MaxPlanners

\* RepairPlanner._save_error_history: write_text replaces whatever the file
\* holds with self.error_history.
save_error_history_Merging(self, on_disk) ==
    [id \in DOMAIN on_disk \cup DOMAIN self.error_history |->
        HistoryGet(on_disk, id) + HistoryGet(self.error_history, id)
            - HistoryGet(self.loaded, id)]

save_error_history(self, on_disk) == self.error_history

\* The invocations that have saved error_history.json.
Saved == {q \in Planners : planner[q].pc = "done"}

\* RepairPlanner.__init__, first half: self.iteration = _get_current_iteration()
GetIteration ==
    \E p \in Planners :
       /\ planner[p].pc = "new"
       /\ planner' = [planner EXCEPT ![p].pc = "iteration",
                                     ![p].iteration = get_current_iteration(planFiles)]
       /\ UNCHANGED <<historyFile, planFiles, analyzerRuns, lastRun, report>>
       /\ UNCHANGED notRace

\* RepairPlanner.__init__, second half: self.error_history = _load_error_history().
\* loaded and saw keep what the invocation read and who had saved by then.
LoadHistory ==
    \E p \in Planners :
       /\ planner[p].pc = "iteration"
       /\ planner' = [planner EXCEPT ![p].pc = "loaded",
                                     ![p].error_history = load_error_history(historyFile),
                                     ![p].loaded = load_error_history(historyFile),
                                     ![p].saw = Saved]
       /\ UNCHANGED <<historyFile, planFiles, analyzerRuns, lastRun, report>>
       /\ UNCHANGED notRace

\* create_repair_plan and the first write of save_repair_plan: the plan file
\* of self.iteration.
WritePlan ==
    \E p \in Planners :
       /\ planner[p].pc = "loaded"
       /\ \E plan \in {create_repair_plan(planner[p].failures, planner[p].error_history,
                                          max_iterations_per_error)} :
            /\ planner' = [planner EXCEPT ![p].pc = "planned",
                                          ![p].error_history = plan.error_history,
                                          ![p].repairs = plan.repairs]
            /\ planFiles' = [n \in DOMAIN planFiles \cup {planner[p].iteration} |->
                   IF n = planner[p].iteration
                   THEN [iteration |-> planner[p].iteration,
                         total_failures |-> Len(planner[p].failures),
                         repairs |-> plan.repairs,
                         skipped_max_iterations |-> plan.skipped]
                   ELSE planFiles[n]]
       /\ UNCHANGED <<historyFile, analyzerRuns, lastRun, report>>
       /\ UNCHANGED notRace

\* The second write of save_repair_plan: _save_error_history().  save_no is
\* the rank of this save among the saves.
SaveHistory ==
    \E p \in Planners :
       /\ planner[p].pc = "planned"
       /\ historyFile' = save_error_history(planner[p], load_error_history(historyFile))
       /\ planner' = [planner EXCEPT ![p].pc = "done",
                                     ![p].save_no = Cardinality(Saved) + 1]
       /\ UNCHANGED <<planFiles, analyzerRuns, lastRun, report>>
       /\ UNCHANGED notRace

\* An empty output directory, and invocations that found the same failures.
RaceInit ==
    /\ historyFile = NoFile
    /\ planFiles = <<>>
    /\ analyzerRuns = 0
    /\ lastRun = NoResult
    /\ report = NoResult
    /\ \E failures \in FailureLists \ {<<>>} :
          planner = [p \in Planners |->
                        [pc |-> "new", failures |-> failures, iteration |-> 0,
                         error_history |-> <<>>, loaded |-> <<>>, saw |-> {},
                         repairs |-> <<>>, save_no |-> 0]]

RaceNext == GetIteration \/ LoadHistory \/ WritePlan \/ SaveHistory

RaceIdle == planner = <<>>

(***************************************************************************)
(*                      vb6_hardcoded_extractor.py                         *)
(*                                                                         *)
(* The analysed directory holds one .bas file.  Its text is a sequence of  *)
(* characters of a small alphabet, and two patterns of PATTERNS are kept,  *)
(* restricted to that alphabet: with h for http://, P for Port= and 5 for  *)
(* a digit,                                                                *)
(*    url          "(?:https?://|ftp://|www\.)[^"]*"    is  " h [^"]* "    *)
(*    port_number  (?:Port)\s*=\s*(\d+)                 is  P \s* (5+)     *)
(* Both may match across a line end, as the patterns of the script may.    *)
(***************************************************************************)

\* Bound of the extractor model: the length of the file's text.
MaxChars == 5

DQ == "dq"
APOS == "apos"
SP == "sp"
NL == "nl"

HcChars == {DQ, "h", APOS, SP, NL, "P", "5"}

\* The categories of PATTERNS, in the order of the dictionary.
Categories == <<"url", "port_number">>

\* The last position of the match of the pattern that starts at position i,
\* or 0 when the pattern does not match there.
MatchEnd(category, content, i) ==
    IF category = "url"
    THEN IF /\ i + 1 <= Len(content)
            /\ content[i] = DQ
            /\ content[i + 1] = "h"
            /\ \E j \in (i + 2)..Len(content) : content[j] = DQ
         THEN CHOOSE j \in (i + 2)..Len(content) :
                 /\ content[j] = DQ
                 /\ \A k \in (i + 2)..(j - 1) : content[k] # DQ
         ELSE 0
    ELSE LET rest == {k \in (i + 1)..Len(content) : content[k] \notin {SP, NL}}
         IN  IF content[i] # "P" \/ rest = {} THEN 0
             ELSE LET k == CHOOSE x \in rest : \A y \in rest : x <= y
                  IN  IF content[k] # "5" THEN 0
                      ELSE CHOOSE e \in k..Len(content) :
                              /\ \A x \in k..e : content[x] = "5"
                              /\ (e = Len(content) \/ content[e + 1] # "5")

\* match.group(1) if match.groups() else match.group(0)
MatchValue(category, content, match) ==
    IF category = "url"
    THEN SubSeq(content, match.start, match.end)
    ELSE SelectSeq(SubSeq(content, match.start, match.end), LAMBDA c : c = "5")

\* pattern.finditer(content), from position pos on: the matches from left to
\* right, none overlapping another.
RECURSIVE finditer(_, _, _)
finditer(category, content, pos) ==
    IF pos > Len(content) THEN <<>>
    ELSE IF MatchEnd(category, content, pos) # 0
         THEN <<[start |-> pos, end |-> MatchEnd(category, content, pos)]>>
                 \o finditer(category, content, MatchEnd(category, content, pos) + 1)
         ELSE finditer(category, content, pos + 1)

\* The line of the position where the match ends, in place of line_num.
line_num_OfMatchEnd(content, match) ==
    Cardinality({j \in 1..(match.end - 1) : content[j] = NL}) + 1

\* line_num = content[:match.start()].count('\n') + 1
line_num(content, match) ==
    Cardinality({j \in 1..(match.start - 1) : content[j] = NL}) + 1

\* content.split('\n')
split(content) ==
    LET nls == {j \in 1..Len(content) : content[j] = NL}
        nth(n) == IF n = 0 THEN 0
                  ELSE IF n > Cardinality(nls) THEN Len(content) + 1
                  ELSE CHOOSE j \in nls : Cardinality({k \in nls : k <= j}) = n
    IN  [n \in 1..(Cardinality(nls) + 1) |-> SubSeq(content, nth(n - 1) + 1, nth(n) - 1)]

\* str.strip()
strip(line) ==
    LET keep == {i \in 1..Len(line) : line[i] # SP}
    IN  IF keep = {} THEN <<>>
        ELSE SubSeq(line, CHOOSE i \in keep : \A j \in keep : i <= j,
                          CHOOSE i \in keep : \A j \in keep : j <= i)

\* line_content.strip().startswith("'")
startswith_quote(line_content) == Len(line_content) > 0 /\ line_content[1] = APOS

\* The loop of _analyze_file over the matches of one category: the findings
\* appended to self.findings[category].
category_findings(category, name, content) ==
    LET lines == split(content)
        matches == finditer(category, content, 1)
        kept == SelectSeq(matches,
                   LAMBDA m : ~startswith_quote(strip(strip(lines[line_num(content, m)]))))
    IN  [k \in 1..Len(kept) |->
           [ file |-> name,
             line |-> line_num(content, kept[k]),
             value |-> MatchValue(category, content, kept[k]),
             context |-> strip(lines[line_num(content, kept[k])]) ]]

\* _analyze_file and the end of analyze(): self.findings and self.summary hold
\* the categories that got a finding.
hardcoded_analyze(name, content) ==
    LET found == IF content = <<>> THEN [i \in 1..Len(Categories) |-> <<>>]
                 ELSE [i \in 1..Len(Categories) |->
                          category_findings(Categories[i], name, content)]
        hit == {i \in 1..Len(Categories) : found[i] # <<>>}
        of(c) == found[CHOOSE i \in hit : Categories[i] = c]
    IN  [ total_findings |-> Len(found[1]) + Len(found[2]),
          by_category |-> [c \in {Categories[i] : i \in hit} |-> Len(of(c))],
          findings |-> [c \in {Categories[i] : i \in hit} |-> of(c)] ]

\* main() of the extractor on the directory.
AnalyzeHardcoded ==
    /\ hcResult = NoResult
    /\ hcResult' = hardcoded_analyze("Module1.bas", hcContent)
    /\ UNCHANGED hcContent
    /\ UNCHANGED notHard

\* The file gets one more character.
WriteChar ==
    /\ hcResult = NoResult
    /\ Len(hcContent) < MaxChars
    /\ \E c \in HcChars : hcContent' = Append(hcContent, c)
    /\ UNCHANGED hcResult
    /\ UNCHANGED notHard

HardInit == hcContent = <<>> /\ hcResult = NoResult

HardNext == WriteChar \/ AnalyzeHardcoded

HardIdle == HardInit

(***************************************************************************)
(*                       vb6_metrics_analyzer.py                           *)
(*                                                                         *)
(* A routine body is a sequence of words and line ends: the keywords the   *)
(* decision patterns of PATTERNS look for, and x for any other word.  Two  *)
(* words of a line are separated by blanks, so \s+ between two words is    *)
(* what lies between a word and the next one, line ends included, and .*   *)
(* stays within a line.                                                    *)
(***************************************************************************)

\* Bound of the metrics model: the number of words and line ends of a body.
MaxTokens == 4

BodyWords == {"If", "Then", "ElseIf", "Case", "Else", "For", "Do", "While",
              "Until", "And", "Or", "x"}

BodyTokens == BodyWords \cup {NL}

\* The position of the next word after position i, 0 when there is none.
NextWord(code, i) ==
    LET later == {k \in (i + 1)..Len(code) : code[k] # NL}
    IN  IF later = {} THEN 0 ELSE CHOOSE k \in later : \A j \in later : k <= j

\* The positions of the line of position i.
SameLine(code, i, j) ==
    \A k \in 1..Len(code) : ((i <= k /\ k <= j) \/ (j <= k /\ k <= i)) => code[k] # NL

\* len(PATTERNS['decision_if'].findall(code)), \bIf\b.*\bThen\b: .* is greedy
\* and does not cross a line end, so the first match of a line runs from its
\* first If that has a Then behind it to its last Then, and the line has no
\* second match.  The matches are given by the positions of their If.
decision_if(code) ==
    {i \in 1..Len(code) :
        /\ code[i] = "If"
        /\ \E j \in (i + 1)..Len(code) : code[j] = "Then" /\ SameLine(code, i, j)
        /\ ~\E h \in 1..(i - 1) :
              /\ code[h] = "If"
              /\ SameLine(code, h, i)
              /\ \E j \in (h + 1)..Len(code) : code[j] = "Then" /\ SameLine(code, h, j)}

\* \bElseIf\b
decision_elseif(code) == {i \in 1..Len(code) : code[i] = "ElseIf"}

\* \bCase\b(?!\s+Else)
decision_case(code) ==
    {i \in 1..Len(code) :
        /\ code[i] = "Case"
        /\ ~(NextWord(code, i) # 0 /\ code[NextWord(code, i)] = "Else")}

\* \bFor\b
decision_for(code) == {i \in 1..Len(code) : code[i] = "For"}

\* \bDo\b\s+(While|Until)
decision_do(code) ==
    {i \in 1..Len(code) :
        /\ code[i] = "Do"
        /\ NextWord(code, i) # 0
        /\ code[NextWord(code, i)] \in {"While", "Until"}}

\* \bWhile\b
decision_while(code) == {i \in 1..Len(code) : code[i] = "While"}

\* \bAnd\b
decision_and(code) == {i \in 1..Len(code) : code[i] = "And"}

\* \bOr\b
decision_or(code) == {i \in 1..Len(code) : code[i] = "Or"}

\* VB6MetricsAnalyzer._calculate_complexity
calculate_complexity(code) ==
    1 + Cardinality(decision_if(code))
      + Cardinality(decision_elseif(code))
      + Cardinality(decision_case(code))
      + Cardinality(decision_for(code))
      + Cardinality(decision_do(code))
      + Cardinality(decision_while(code))
      + Cardinality(decision_and(code))
      + Cardinality(decision_or(code))

\* _analyze_functions computes the complexity of the routine body.
CalculateComplexity ==
    /\ mtResult = NoResult
    /\ mtResult' = [complexity |-> calculate_complexity(mtBody)]
    /\ UNCHANGED mtBody
    /\ UNCHANGED notMetrics

\* The routine body gets one more word or line end.
WriteToken ==
    /\ mtResult = NoResult
    /\ Len(mtBody) < MaxTokens
    /\ \E t \in BodyTokens : mtBody' = Append(mtBody, t)
    /\ UNCHANGED mtResult
    /\ UNCHANGED notMetrics

MetricsInit == mtBody = <<>> /\ mtResult = NoResult

MetricsNext == WriteToken \/ CalculateComplexity

MetricsIdle == MetricsInit

(***************************************************************************)
(*             vb6_metrics_analyzer.py: analyze and the risk score         *)
(*                                                                         *)
(* A file is modelled by what _analyze_file measures in it.  Ratios and    *)
(* averages, which the code rounds to two decimals, are kept in hundredths,*)
(* and so is the score.                                                    *)
(***************************************************************************)

\* Bound of the model: the number of source files in the directory.
MaxRiskFiles == 2

\* What _analyze_file may measure in one file: ten code lines, its comment
\* lines, the complexities of its routines and the number of risk indicators
\* it appends.
MeasuredFiles ==
    [ loc : {10}, comment_lines : {0, 1, 5},
      complexities : {<<>>, <<1>>, <<12>>, <<25>>},
      indicators : {0, 1, 3} ]

\* max(a, b) and min(a, b)
Max(a, b) == IF a >= b THEN a ELSE b

Min(a, b) == IF a <= b THEN a ELSE b

\* round(n / d, 2) in hundredths, for n already in hundredths.
Round2(n, d) == (2 * n + d) \div (2 * d)

\* sum(...) of a list of numbers
RECURSIVE SumOf(_)
SumOf(numbers) ==
    IF numbers = <<>> THEN 0 ELSE Head(numbers) + SumOf(Tail(numbers))

\* total += file_metrics[key], over the files
TotalOf(files, key) == SumOf([i \in 1..Len(files) |-> files[i][key]])

\* "Classify complexity" of _analyze_functions
complexity_level(complexity) ==
    IF complexity <= 5 THEN "low"
    ELSE IF complexity <= 10 THEN "medium"
    ELSE IF complexity <= 20 THEN "high"
    ELSE "very_high"

\* self.metrics['complexity_distribution'][level] after all files
LevelCount(files, level) ==
    SumOf([i \in 1..Len(files) |->
        Len(SelectSeq(files[i].complexities, LAMBDA c : complexity_level(c) = level))])

\* self.metrics['summary'].get(key, 0)
SummaryGet(summary, key) == IF key \in DOMAIN summary THEN summary[key] ELSE 0

\* _calculate_risk_score, on self.metrics as it is when the method is called.
calculate_risk_score(metrics) ==
    LET avg_complexity == SummaryGet(metrics.summary, "average_complexity")
        comment_ratio == SummaryGet(metrics.summary, "comment_ratio")
        high == metrics.complexity_distribution.high
        very_high == metrics.complexity_distribution.very_high
        risk_count == metrics.risk_indicators
    IN  Min(10000,
            Min(3000, avg_complexity * 2)
          + (IF comment_ratio < 1000 THEN 2000
             ELSE IF comment_ratio < 2000 THEN 1000 ELSE 0)
          + 100 * Min(25, (high * 2) + (very_high * 5))
          + 100 * Min(25, risk_count * 5))

\* __init__: self.metrics before analyze
EmptyMetrics ==
    [ summary |-> <<>>,
      complexity_distribution |-> [low |-> 0, medium |-> 0, high |-> 0, very_high |-> 0],
      risk_indicators |-> 0 ]

\* analyze: the walk over the files, then the summary.  The dictionary of
\* the summary is built, risk_score included, before it is stored in
\* self.metrics['summary'].
metrics_analyze(files) ==
    LET total_loc == TotalOf(files, "loc")
        total_comments == TotalOf(files, "comment_lines")
        total_functions == SumOf([i \in 1..Len(files) |-> Len(files[i].complexities)])
        total_complexity ==
            SumOf([i \in 1..Len(files) |-> SumOf(files[i].complexities)])
        walked == [EmptyMetrics EXCEPT
                     !.complexity_distribution =
                         [l \in {"low", "medium", "high", "very_high"} |->
                             LevelCount(files, l)],
                     !.risk_indicators = TotalOf(files, "indicators")]
    IN  [walked EXCEPT !.summary =
            [ total_files |-> Len(files),
              total_loc |-> total_loc,
              total_comment_lines |-> total_comments,
              comment_ratio |-> Round2(10000 * total_comments, Max(total_loc, 1)),
              total_functions |-> total_functions,
              average_complexity |->
                  Round2(100 * total_complexity, Max(total_functions, 1)),
              risk_score |-> calculate_risk_score(walked) ]]

\* main() of vb6_metrics_analyzer on the directory.
AnalyzeRisk ==
    /\ rkResult = NoResult
    /\ rkResult' = metrics_analyze(rkFiles)
    /\ UNCHANGED rkFiles
    /\ UNCHANGED notRisk

\* A source file is added to the directory.
WriteVbFile ==
    /\ rkResult = NoResult
    /\ Len(rkFiles) < MaxRiskFiles
    /\ \E f \in MeasuredFiles : rkFiles' = Append(rkFiles, f)
    /\ UNCHANGED rkResult
    /\ UNCHANGED notRisk

RiskInit ==
    /\ rkFiles = <<>>
    /\ rkResult = NoResult

RiskNext == WriteVbFile \/ AnalyzeRisk

RiskIdle == rkFiles = <<>> /\ rkResult = NoResult

InitScan == ScanInit /\ DeadIdle /\ SchemaIdle /\ GraphIdle /\ RepairIdle /\ CovIdle /\ AuditIdle /\ DownIdle /\ RaceIdle /\ HardIdle /\ MetricsIdle /\ RiskIdle

SpecScan == InitScan /\ [][ScanNext]_vars

InitDead == DeadInit /\ ScanIdle /\ SchemaIdle /\ GraphIdle /\ RepairIdle /\ CovIdle /\ AuditIdle /\ DownIdle /\ RaceIdle /\ HardIdle /\ MetricsIdle /\ RiskIdle

SpecDead == InitDead /\ [][DeadNext]_vars

InitSchema == SchemaInit /\ ScanIdle /\ DeadIdle /\ GraphIdle /\ RepairIdle /\ CovIdle /\ AuditIdle /\ DownIdle /\ RaceIdle /\ HardIdle /\ MetricsIdle /\ RiskIdle

SpecSchema == InitSchema /\ [][SchemaNext]_vars

InitGraph == GraphInit /\ ScanIdle /\ DeadIdle /\ SchemaIdle /\ RepairIdle /\ CovIdle /\ AuditIdle /\ DownIdle /\ RaceIdle /\ HardIdle /\ MetricsIdle /\ RiskIdle

SpecGraph == InitGraph /\ [][GraphNext]_vars

InitRepair == RepairInit /\ ScanIdle /\ DeadIdle /\ SchemaIdle /\ GraphIdle /\ CovIdle /\ AuditIdle /\ DownIdle /\ RaceIdle /\ HardIdle /\ MetricsIdle /\ RiskIdle

SpecRepair == InitRepair /\ [][RepairNext]_vars

SpecReport == InitRepair /\ [][ReportNext]_vars

InitCov == CovInit /\ ScanIdle /\ DeadIdle /\ SchemaIdle /\ GraphIdle /\ RepairIdle /\ AuditIdle /\ DownIdle /\ RaceIdle /\ HardIdle /\ MetricsIdle /\ RiskIdle

SpecCov == InitCov /\ [][CovNext]_vars

InitAudit ==
    /\ AuditInit /\ ScanIdle /\ DeadIdle /\ SchemaIdle /\ GraphIdle /\ RepairIdle
    /\ CovIdle /\ DownIdle /\ RaceIdle /\ HardIdle /\ MetricsIdle /\ RiskIdle

SpecAudit == InitAudit /\ [][AuditNext]_vars

InitDown ==
    /\ DownInit /\ ScanIdle /\ DeadIdle /\ SchemaIdle /\ GraphIdle /\ RepairIdle
    /\ CovIdle /\ AuditIdle /\ RaceIdle /\ HardIdle /\ MetricsIdle /\ RiskIdle

SpecDown == InitDown /\ [][DownNext]_vars

InitRace ==
    /\ RaceInit /\ ScanIdle /\ DeadIdle /\ SchemaIdle /\ GraphIdle /\ CovIdle
    /\ AuditIdle /\ DownIdle /\ HardIdle /\ MetricsIdle /\ RiskIdle

SpecRace == InitRace /\ [][RaceNext]_vars

InitHard ==
    /\ HardInit /\ ScanIdle /\ DeadIdle /\ SchemaIdle /\ GraphIdle
    /\ RepairIdle /\ CovIdle /\ AuditIdle /\ DownIdle /\ RaceIdle /\ MetricsIdle /\ RiskIdle

SpecHard == InitHard /\ [][HardNext]_vars

InitMetrics ==
    /\ MetricsInit /\ ScanIdle /\ DeadIdle /\ SchemaIdle /\ GraphIdle /\ RepairIdle
    /\ CovIdle /\ AuditIdle /\ DownIdle /\ RaceIdle /\ HardIdle /\ RiskIdle

SpecMetrics == InitMetrics /\ [][MetricsNext]_vars

InitRisk ==
    /\ RiskInit /\ ScanIdle /\ DeadIdle /\ SchemaIdle /\ GraphIdle /\ RepairIdle
    /\ CovIdle /\ AuditIdle /\ DownIdle /\ RaceIdle /\ HardIdle /\ MetricsIdle

SpecRisk == InitRisk /\ [][RiskNext]_vars

(***************************************************************************)
(* C1: when scan is run twice and no source file changed between the two   *)
(* runs, the second run takes the cache-hit path, returns the analysis the *)
(* first run stored and invokes no parsing step.                           *)
(***************************************************************************)
C1_SecondRunHitsCache ==
    \A i \in 2..Len(runsLog) :
        ~runsLog[i].changed /\ (runsLog[i-1].hit \/ runsLog[i-1].saved) =>
            /\ runsLog[i].hit
            /\ runsLog[i].steps = {}
            /\ runsLog[i].analysis = runsLog[i-1].analysis

\* The i-th file of the walk names the column in a statement on the table.
ColumnFrom(t, col, i) ==
    \E k \in 1..Len(sqlFiles[i].stmts) :
        LET x == sqlFiles[i].stmts[k]
        IN  /\ x.kind \in {"select", "insert", "update"}
            /\ x.table = t
            /\ LowerCol(x.col) = col

\* C4: once a table's primary_key is set from a column named id, <table>id
\* or <table>_id, analysing further files never changes it: a table that
\* gets column id from file A and column <table>id from the later file B is
\* reported with primary_key id.
C4_PrimaryKeyFirstMatchWins ==
    (/\ schemaResult # NoResult
     /\ ColumnFrom("orders", "id", 1) /\ ~ColumnFrom("orders", "ordersid", 1)
     /\ ColumnFrom("orders", "ordersid", 2))
       => schemaResult.tables["orders"].primary_key = "id"

(***************************************************************************)
(* Vocabulary of the dead-code claims, in terms of the analysed files.     *)
(***************************************************************************)

\* The code files of the directory.
CodePaths == {p \in DeadPaths : IsCodeFile(srcDir[p].name)}

\* Routine t (as written) has the form <control>_<Event>.
IsEventHandlerName(t) == t[2] \in EventSuffixes

\* The number of call sites of name n (lower case) in the file at path p.
CallSites(p, n) ==
    LET ts == {t \in Tokens : Lower(t) = n /\ srcDir[p].calls[t] > 0}
    IN  IF ts = {} THEN 0 ELSE srcDir[p].calls[CHOOSE t \in ts : TRUE]

\* The file at path p declares name n.
DeclaresAt(p, n) == \E d \in srcDir[p].decls : Lower(d.name) = n

\* Name n is listed in dead_functions.
ListedDead(n) == \E e \in deadResult.dead_functions : e.func_name = n

(***************************************************************************)
(* C2: a Sub whose declared name is <control>_<Event>, Event one of the    *)
(* listed suffixes, is never listed in dead_functions, whatever call sites *)
(* exist.                                                                  *)
(***************************************************************************)
C2_EventHandlerNeverDead ==
    deadResult # NoResult =>
        \A e \in deadResult.dead_functions :
            ~ (e.type = "Sub" /\ IsEventHandlerName(e.name[2]))

(***************************************************************************)
(* C3: a routine that is not an event handler, a built-in or Main, declared*)
(* in one file, (a) is listed in dead_functions when its only reference is *)
(* one call inside its declaring file, and (b) is not listed when a second *)
(* code file also holds a call to it.                                      *)
(***************************************************************************)
C3_DeadIffNoSecondFile ==
    deadResult # NoResult =>
        \A p \in CodePaths : \A d \in srcDir[p].decls :
            LET n == Lower(d.name)
                others == CodePaths \ {p}
            IN  ( /\ ~IsEventHandlerName(d.name)
                  /\ n[1] \notin vb_builtins
                  /\ n # <<"main", "">>
                  /\ \A q \in others : ~DeclaresAt(q, n) )
                =>
                ( /\ (CallSites(p, n) = 1 /\ \A q \in others : CallSites(q, n) = 0)
                        => ListedDead(n)
                  /\ (\E q \in others : CallSites(q, n) > 0) => ~ListedDead(n) )

(***************************************************************************)
(* C7 as stated: a routine referenced more than once inside its declaring  *)
(* file and from no other file is live (not listed in dead_functions).     *)
(***************************************************************************)
C7_TwiceInOwnFileIsLive ==
    deadResult # NoResult =>
        \A p \in CodePaths : \A d \in srcDir[p].decls :
            LET n == Lower(d.name)
                others == CodePaths \ {p}
            IN  ( /\ CallSites(p, n) > 1
                  /\ \A q \in others : CallSites(q, n) = 0 /\ ~DeclaresAt(q, n) )
                => ~ListedDead(n)

(***************************************************************************)
(* C7 amended: a routine whose references all lie in its own declaring     *)
(* file, however many they are, is listed in dead_functions, unless its    *)
(* lower-case name is in the detector's event_handlers set, is a built-in  *)
(* name or is main.                                                        *)
(***************************************************************************)
C7_OwnFileOnlyIsDead ==
    deadResult # NoResult =>
        \A p \in CodePaths : \A d \in srcDir[p].decls :
            LET n == Lower(d.name)
                others == CodePaths \ {p}
            IN  ( /\ \A q \in others : CallSites(q, n) = 0 /\ ~DeclaresAt(q, n)
                  /\ n \notin deadResult.event_handlers
                  /\ ~(n[2] = "" /\ n[1] \in vb_builtins)
                  /\ n # <<"main", "">> )
                => ListedDead(n)

\* Reached: a routine with two call sites in its declaring file and no
\* reference elsewhere has been analysed, and is listed dead.
C7_Witness ==
    /\ deadResult # NoResult
    /\ \E p \in CodePaths : \E d \in srcDir[p].decls :
          /\ CallSites(p, Lower(d.name)) > 1
          /\ \A q \in CodePaths \ {p} :
                CallSites(q, Lower(d.name)) = 0 /\ ~DeclaresAt(q, Lower(d.name))
          /\ ListedDead(Lower(d.name))

(***************************************************************************)
(* Vocabulary of the dependency-graph claims.                              *)
(***************************************************************************)

\* The directed graph of the result: the (source, target) pairs of edge_counts.
GraphEdges == {<<k[1], k[2]>> : k \in DOMAIN graphResult.edge_counts}

\* The node list closes on itself along edges of the graph.
IsCycleOfGraph(c) ==
    /\ Len(c) >= 2
    /\ c[1] = c[Len(c)]
    /\ \A i \in 1..(Len(c) - 1) : <<c[i], c[i+1]>> \in GraphEdges

\* The graph has exactly the nodes x, y, z and the edges x->y, y->z, z->x.
IsTriangle(x, y, z) ==
    /\ {x, y, z} = NodeNames
    /\ SeqRange(graphResult.nodes) = NodeNames
    /\ GraphEdges = {<<x, y>>, <<y, z>>, <<z, x>>}

\* C5: every cycle _detect_cycles returns is an actual cycle of the graph:
\* first and last node are equal and each consecutive pair is an edge of
\* edge_counts, also for the roots started after an earlier root returned a
\* cycle.
C5_EveryCycleIsACycle ==
    graphResult # NoResult =>
        \A i \in 1..Len(graphResult.circular_dependencies) :
            IsCycleOfGraph(graphResult.circular_dependencies[i])

\* C6: for the graph with exactly the nodes A, B, C and the edges A->B, B->C,
\* C->A, _detect_cycles returns exactly one cycle, which visits the three
\* nodes in edge order starting at the node the outer loop starts from and
\* repeats that node at the end.
C6_TriangleGivesOneCycle ==
    graphResult # NoResult =>
        \A x, y, z \in NodeNames :
            (IsTriangle(x, y, z) /\ graphResult.nodes[1] = x)
               => graphResult.circular_dependencies = << <<x, y, z, x>> >>

\* The triangle frmmain -> modutil -> clsdata -> frmmain was analysed with the
\* outer loop starting from clsdata.
C6_Witness ==
    /\ graphResult # NoResult
    /\ IsTriangle("frmmain", "modutil", "clsdata")
    /\ graphResult.nodes[1] = "clsdata"
    /\ graphResult.circular_dependencies = << <<"clsdata", "frmmain", "modutil", "clsdata">> >>

(***************************************************************************)
(* Vocabulary of the repair claims.                                        *)
(***************************************************************************)

\* The error ids of the failures of the last analyzer run that had reached
\* the maximum when the run loaded the history.
AtMaxInLastRun ==
    {generate_error_id(lastRun.failures[i]) : i \in 1..Len(lastRun.failures)}
       \cap {id \in DOMAIN lastRun.before :
                lastRun.before[id] >= max_iterations_per_error}

\* C8: across serialized RepairPlanner runs with a fixed
\* max_iterations_per_error, the count stored for an error id never exceeds
\* the maximum; an error whose count has reached the maximum is put in the
\* skipped list with status MAX_ITERATIONS_REACHED, gets no entry in repairs
\* and keeps its count.
C8_CountNeverExceedsMax ==
    /\ historyFile # NoFile =>
          \A id \in DOMAIN historyFile : historyFile[id] <= max_iterations_per_error
    /\ (lastRun # NoResult /\ lastRun.exit = 1) =>
          \A id \in AtMaxInLastRun :
             /\ \E i \in 1..Len(lastRun.skipped) :
                   /\ lastRun.skipped[i].error_id = id
                   /\ lastRun.skipped[i].status = "MAX_ITERATIONS_REACHED"
             /\ \A i \in 1..Len(lastRun.repairs) : lastRun.repairs[i].error_id # id
             /\ \A i \in 1..Len(planFiles[lastRun.iteration].repairs) :
                   planFiles[lastRun.iteration].repairs[i].error_id # id
             /\ historyFile[id] = lastRun.before[id]

\* A run found an error at the maximum and another one below it.
C8_Witness ==
    /\ lastRun # NoResult
    /\ lastRun.exit = 1
    /\ AtMaxInLastRun # {}
    /\ Len(lastRun.repairs) > 0
    /\ \E id \in DOMAIN historyFile : historyFile[id] = max_iterations_per_error

\* C9: every record load_repair_history builds has status REPAIRED, FAILED
\* or SKIPPED, so in calculate_summary repaired + failed + skipped equals
\* total_errors.
C9_StatusIsTerminal ==
    report # NoResult =>
        /\ \A id \in DOMAIN report.records :
              report.records[id].status \in {"REPAIRED", "FAILED", "SKIPPED"}
        /\ report.summary.repaired + report.summary.failed + report.summary.skipped
              = report.summary.total_errors

(***************************************************************************)
(* Vocabulary of the coverage claims, in terms of the coverage files.      *)
(***************************************************************************)

\* The layers of the run whose coverage file was read and parsed.
ValidatedLayers ==
    {layer \in covRun.given : covFiles[layer] \notin {NoFile, Malformed}}

\* Every metric in the layer's file reaches its default threshold.
ReachesThresholds(layer) ==
    /\ covFiles[layer] \notin {NoFile, Malformed}
    /\ covFiles[layer].lines >= DefaultThreshold
    /\ covFiles[layer].statements >= DefaultThreshold
    /\ covFiles[layer].functions >= DefaultThreshold
    /\ covFiles[layer].branches >= DefaultBranchThreshold

InputMissing == \A root \in auditRun.roots : ~auditDirs[root].exists

\* C11: a tool given a required input directory that does not exist (a11y_audit
\* with a nonexistent --input, security_audit with nonexistent --frontend and
\* --backend) never exits 0 and never reports a passing verdict.
C11_MissingInputFails ==
    (auditRun # NoResult /\ InputMissing)
        => (auditRun.exit # 0 /\ ~auditRun.report.verdict)

\* The primary JSON input of the tool that ran was there but was no JSON.
PrimaryInputMalformed ==
    \/ downRun.tool = "contract_validator" /\ swaggerFile = Malformed
    \/ downRun.tool = "html_report_generator" /\ analysisJson = Malformed

\* C12: a downstream tool whose primary JSON input cannot be parsed exits
\* non-zero without an unhandled fault: contract_validator given a malformed
\* swagger file never exits 0, and html_report_generator given a malformed
\* analysis JSON returns an error code instead of raising.
C12_MalformedInputFailsCleanly ==
    (downRun # NoResult /\ PrimaryInputMalformed)
        => (downRun.exit # 0 /\ ~downRun.raised)


\* The directory names the file classifier is to prune from its traversal.
PrunedDirNames == {"node_modules", ".git", "bin", "obj"}

UnderPrunedDir(p) == ParentDirs(p) \cap PrunedDirNames # {}

\* The run scanned the whole directory: no cache hit, no exception.
FullScan(run) == ~run.hit /\ ~run.raised

(***************************************************************************)
(* C13: _discover_files never descends into a directory named             *)
(* node_modules, .git, bin or obj: no file under such a directory is in    *)
(* the inventory, in the summary counts or in the cache fingerprint.       *)
(***************************************************************************)
C13_PrunedDirsNeverScanned ==
    \A i \in 1..Len(runsLog) :
        /\ \A k \in 1..Len(runsLog[i].current_hash) :
              runsLog[i].current_hash[k][1] \notin
                  {FileName(p) : p \in {q \in AllPaths : UnderPrunedDir(q)}}
        /\ FullScan(runsLog[i]) =>
              /\ \A f \in runsLog[i].analysis.inventory : ~UnderPrunedDir(f.path)
              /\ runsLog[i].analysis.total_files =
                    Cardinality({f \in runsLog[i].analysis.inventory : ~UnderPrunedDir(f.path)})

(***************************************************************************)
(* C14: a source file that cannot be read is skipped and the scan goes on  *)
(* over the other files and returns a result: no read failure of one file  *)
(* aborts the run.                                                         *)
(***************************************************************************)
C14_UnreadableFileIsSkipped ==
    \A i \in 1..Len(runsLog) :
        /\ ~runsLog[i].raised
        /\ runsLog[i].analysis # NoAnalysis

\* The cache file the run found cannot serve the current fingerprint: it is
\* absent, is not JSON, lacks a key or stores another hash.
CacheUnusable(run) ==
    \/ run.cached = NoCache
    \/ run.cached = InvalidJson
    \/ "source_hash" \notin DOMAIN run.cached
    \/ "analysis" \notin DOMAIN run.cached
    \/ run.cached.source_hash # run.current_hash

(***************************************************************************)
(* C15: when the cache file is absent, is not valid JSON, lacks the        *)
(* source_hash or the analysis key, or stores another hash,                *)
(* _load_from_cache returns False and scan performs the full scan (and     *)
(* rewrites the cache when the write succeeds); the run does not fail.     *)
(***************************************************************************)
C15_UnusableCacheGivesFullScan ==
    \A i \in 1..Len(runsLog) :
        CacheUnusable(runsLog[i]) =>
            /\ ~runsLog[i].hit
            /\ runsLog[i].steps = ParseSteps
            /\ ~runsLog[i].raised


\* The number of repair entries the invocation issued for the error.
IssuedBy(p, id) == Len(SelectSeq(planner[p].repairs, LAMBDA r : r.error_id = id))

\* The number of repair entries the first n invocations issued for the error,
\* counting the invocations that have saved.
RECURSIVE IssuedBySaved(_, _)
IssuedBySaved(n, id) ==
    IF n = 0 THEN 0
    ELSE IssuedBySaved(n - 1, id) + (IF n \in Saved THEN IssuedBy(n, id) ELSE 0)

\* The number of repair entries for the error in the plan files.
EntriesOnDisk(id) ==
    Len(SelectSeq(AllRepairs(planFiles, MaxPlanners), LAMBDA r : r.error_id = id))

\* Both invocations have saved, and each loaded error_history.json before the
\* other saved it.
LoadedBeforeEitherSaved(p, q) ==
    /\ p # q
    /\ {p, q} \subseteq Saved
    /\ p \notin planner[q].saw
    /\ q \notin planner[p].saw

ErrorIds == {generate_error_id(f) : f \in TestFailures}

(***************************************************************************)
(* C16: concurrent RepairPlanner invocations take no lock.  When two       *)
(* invocations both load error_history.json before either saves it, the    *)
(* later save replaces the earlier one: the file holds the counts of the   *)
(* invocation that saved last, and for an error both invocations planned   *)
(* the stored count is smaller than the number of repair entries issued.   *)
(***************************************************************************)
C16_LaterSaveOverwritesEarlier ==
    \A p, q \in Planners :
        LoadedBeforeEitherSaved(p, q) =>
            /\ \A l \in Saved :
                  planner[l].save_no = Cardinality(Saved) =>
                      historyFile = planner[l].error_history
            /\ \A id \in ErrorIds :
                  (IssuedBy(p, id) > 0 /\ IssuedBy(q, id) > 0) =>
                      HistoryGet(historyFile, id) < IssuedBySaved(MaxPlanners, id)

\* Two invocations raced, and the plan files hold more repair entries for an
\* error than max_iterations_per_error while its stored count is within it.
C16_Witness ==
    \E p, q \in Planners :
        /\ LoadedBeforeEitherSaved(p, q)
        /\ \E id \in ErrorIds :
              /\ EntriesOnDisk(id) > max_iterations_per_error
              /\ HistoryGet(historyFile, id) <= max_iterations_per_error

(***************************************************************************)
(* C17: for a fixed input directory two runs of a scanner emit identical   *)
(* JSON: the order of the list elements of the output (the columns,        *)
(* operations and sources lists of the schema extractor) is a function of  *)
(* the input only.                                                         *)
(***************************************************************************)
C17_TwoRunsSameOutput ==
    (schemaResult # NoResult /\ schemaRuns # <<>>) =>
        \A i \in 1..Len(schemaRuns) : schemaRuns[i] = schemaResult

\* The categories of FILE_CATEGORIES, those of the recognized extensions.
RecognizedCategories == {"forms", "modules"}

(***************************************************************************)
(* C19: for a directory that holds no file with a recognized extension,    *)
(* the scanner completes without error and every count of its summary is   *)
(* zero.                                                                   *)
(***************************************************************************)
C19_NoRecognizedFileGivesZeroCounts ==
    \A i \in 1..Len(runsLog) :
        (/\ ~runsLog[i].hit
         /\ \A k \in 1..Len(runsLog[i].current_hash) :
               \A p \in AllPaths :
                  FileName(p) = runsLog[i].current_hash[k][1] =>
                      Category(p) \notin RecognizedCategories)
           => /\ ~runsLog[i].raised
              /\ runsLog[i].analysis.total_files = 0

(***************************************************************************)
(* Vocabulary of the hardcoded-value claims, in terms of the file's text.  *)
(***************************************************************************)

\* The line of the i-th character of the text.
LineOf(i) == 1 + Cardinality({j \in 1..(i - 1) : hcContent[j] = NL})

\* The trimmed content of the n-th line begins with a single quote.
IsCommentLine(n) ==
    \E k \in 1..Len(hcContent) :
        /\ LineOf(k) = n
        /\ hcContent[k] = APOS
        /\ \A j \in 1..(k - 1) : LineOf(j) = n => hcContent[j] \in {SP, NL}

CategoryNames == {Categories[i] : i \in 1..Len(Categories)}

\* The matches of the category's pattern in the text.
MatchesOf(c) == SeqRange(finditer(c, hcContent, 1))

FindingsOf(c) == IF c \in DOMAIN hcResult.findings THEN hcResult.findings[c] ELSE <<>>

CountOf(c) == IF c \in DOMAIN hcResult.by_category THEN hcResult.by_category[c] ELSE 0

(***************************************************************************)
(* C18: a match that starts on a line whose trimmed content begins with a  *)
(* single quote gives no finding and is not counted in the summary of its  *)
(* category, for every category: the findings are on other lines and the   *)
(* count is the number of matches that start on other lines.               *)
(***************************************************************************)
C18_CommentLineMatchIsNoFinding ==
    hcResult # NoResult =>
        \A c \in CategoryNames :
            /\ \A k \in 1..Len(FindingsOf(c)) : ~IsCommentLine(FindingsOf(c)[k].line)
            /\ Len(FindingsOf(c)) = CountOf(c)
            /\ CountOf(c) = Cardinality({m \in MatchesOf(c) : ~IsCommentLine(LineOf(m.start))})

\* The extractor ran on a text with a match that starts on a comment line and
\* ends on a later line.
C18_Witness ==
    /\ hcResult # NoResult
    /\ \E c \in CategoryNames : \E m \in MatchesOf(c) :
          /\ IsCommentLine(LineOf(m.start))
          /\ LineOf(m.end) # LineOf(m.start)
          /\ ~IsCommentLine(LineOf(m.end))

(***************************************************************************)
(* Vocabulary of the complexity claim, in terms of the routine body.       *)
(***************************************************************************)

\* The If...Then of the body: an If with a Then behind it on its line and no
\* other If between the two.
IfThens ==
    {i \in 1..Len(mtBody) :
        /\ mtBody[i] = "If"
        /\ \E j \in (i + 1)..Len(mtBody) :
              /\ mtBody[j] = "Then"
              /\ SameLine(mtBody, i, j)
              /\ \A k \in (i + 1)..(j - 1) : mtBody[k] # "If"}

\* The words of the body that are this keyword.
Words(w) == {i \in 1..Len(mtBody) : mtBody[i] = w}

\* Case Else: a Case with Else as the next word.
CaseElses ==
    {i \in Words("Case") :
        NextWord(mtBody, i) # 0 /\ mtBody[NextWord(mtBody, i)] = "Else"}

\* Do While and Do Until: a Do with While or Until as the next word.
DoWhiles ==
    {i \in Words("Do") :
        NextWord(mtBody, i) # 0 /\ mtBody[NextWord(mtBody, i)] \in {"While", "Until"}}

(***************************************************************************)
(* C20: _calculate_complexity returns 1 plus one for each If...Then,       *)
(* ElseIf, Case other than Case Else, For, Do While/Until, While, And and  *)
(* Or of the routine body; a body with no such construct scores 1 and a    *)
(* body with one If...Then and nothing else scores 2.                      *)
(***************************************************************************)
C20_ComplexityCountsEachConstruct ==
    mtResult # NoResult =>
        mtResult.complexity =
            1 + Cardinality(IfThens)
              + Cardinality(Words("ElseIf"))
              + Cardinality(Words("Case") \ CaseElses)
              + Cardinality(Words("For"))
              + Cardinality(DoWhiles)
              + Cardinality(Words("While"))
              + Cardinality(Words("And"))
              + Cardinality(Words("Or"))

(***************************************************************************)
(* Vocabulary of the hub claim, in terms of the edge counts of the result. *)
(***************************************************************************)

\* The sum of the counts of a set of edge keys.
RECURSIVE WeightOf(_)
WeightOf(keys) ==
    IF keys = {} THEN 0
    ELSE LET k == CHOOSE e \in keys : TRUE
         IN  graphResult.edge_counts[k] + WeightOf(keys \ {k})

Incoming(n) == WeightOf({k \in DOMAIN graphResult.edge_counts : k[2] = n})

Outgoing(n) == WeightOf({k \in DOMAIN graphResult.edge_counts : k[1] = n})

(***************************************************************************)
(* C21: _identify_hubs returns exactly the nodes whose incoming plus       *)
(* outgoing edge counts, summed over all edge types, are at least 3, each  *)
(* once, in descending order of that total; a hub is recommended "Migrate  *)
(* early" exactly when its incoming weight is greater than its outgoing    *)
(* weight.                                                                 *)
(***************************************************************************)
C21_HubsAreNodesOfWeightThree ==
    graphResult # NoResult =>
        LET hubs == graphResult.hub_modules
        IN  /\ {hubs[i].name : i \in 1..Len(hubs)} =
                  {n \in SeqRange(graphResult.nodes) : Incoming(n) + Outgoing(n) >= 3}
            /\ \A i, j \in 1..Len(hubs) : i # j => hubs[i].name # hubs[j].name
            /\ \A i \in 1..Len(hubs) :
                  /\ hubs[i].total = Incoming(hubs[i].name) + Outgoing(hubs[i].name)
                  /\ hubs[i].recommendation = "Migrate early - many dependents"
                        <=> Incoming(hubs[i].name) > Outgoing(hubs[i].name)
            /\ \A i, j \in 1..Len(hubs) : i < j => hubs[i].total >= hubs[j].total

\* Two hubs of different totals, the heavier one later in self.nodes, the
\* lighter one with more incoming than outgoing weight, and a node of total 2
\* that is no hub.
C21_Witness ==
    /\ graphResult # NoResult
    /\ Len(graphResult.hub_modules) = 2
    /\ graphResult.hub_modules[1].total > graphResult.hub_modules[2].total
    /\ graphResult.hub_modules[2].total = 3
    /\ graphResult.hub_modules[2].incoming > graphResult.hub_modules[2].outgoing
    /\ graphResult.hub_modules[1].incoming < graphResult.hub_modules[1].outgoing
    /\ \E a, b \in 1..Len(graphResult.nodes) :
          /\ a < b
          /\ graphResult.nodes[a] = graphResult.hub_modules[2].name
          /\ graphResult.nodes[b] = graphResult.hub_modules[1].name

\* The directed graph of the edge counts has a cycle: a closed walk over at
\* most all the modules.
HasCycle ==
    \E n \in 2..(Cardinality(NodeNames) + 1) :
        \E c \in [1..n -> NodeNames] : IsCycleOfGraph(c)

(***************************************************************************)
(* C22: _detect_cycles returns an empty list if and only if the directed   *)
(* graph formed by the edges of edge_counts contains no cycle.             *)
(***************************************************************************)
C22_NoCyclesIffAcyclic ==
    graphResult # NoResult =>
        (graphResult.circular_dependencies = <<>> <=> ~HasCycle)

\* An analysis of a graph whose only cycle runs through all three modules,
\* reported with at least one cycle.
C22_Witness ==
    /\ graphResult # NoResult
    /\ graphResult.circular_dependencies # <<>>
    /\ HasCycle
    /\ \A x, y \in NodeNames :
          ~(<<x, y>> \in GraphEdges /\ <<y, x>> \in GraphEdges)

\* The error ids among the repairs of the most recent repair plan file.
IdsOfLastPlan ==
    UNION {{report_generate_error_id(planFiles[n].repairs[i]) :
                i \in 1..Len(planFiles[n].repairs)} : n \in LastPlan(planFiles)}

(***************************************************************************)
(* C23: the report generator gives an auto-fixable error the status        *)
(* REPAIRED whenever the error is not among the repairs of the most recent *)
(* repair plan file.                                                       *)
(***************************************************************************)
C23_AbsentFromLastPlanIsRepaired ==
    report # NoResult =>
        \A id \in DOMAIN report.records :
            (REPAIR_STRATEGIES(id[3]).auto_fixable /\ id \notin IdsOfLastPlan)
                => report.records[id].status = "REPAIRED"

(***************************************************************************)
(* C24: ContractValidator.validate emits a CT-006 finding, "URL path       *)
(* mismatch (possible typo)", for a frontend call that matches no swagger  *)
(* endpoint but for which _find_similar_endpoint returns an endpoint.      *)
(***************************************************************************)
C24_SimilarEndpointGivesCT006 ==
    (downRun # NoResult /\ downRun.tool = "contract_validator") =>
        \A call \in serviceCalls :
            ( /\ find_matching_endpoint(call.url, call.method,
                                        swagger_parse(swaggerFile)) = {}
              /\ find_similar_endpoint(call.url, swagger_parse(swaggerFile)) # {} )
            => \E f \in downRun.findings : f.rule_id = "CT-006" /\ f.about = call

\* The A11Y-005 findings of the audit for a scanned file.
H1FindingsFor(f) ==
    {x \in auditRun.report.findings : x.rule_id = "A11Y-005" /\ x.file = f}

(***************************************************************************)
(* C25: the accessibility audit records one A11Y-005 finding for every     *)
(* scanned HTML file whose number of <h1> tags differs from 1, and none    *)
(* for a file with exactly one <h1>.                                       *)
(***************************************************************************)
C25_OneFindingUnlessOneH1 ==
    (auditRun # NoResult /\ auditRun.tool = "a11y_audit") =>
        \A f \in auditRun.scanned :
            f.ext = ".html" =>
                Cardinality(H1FindingsFor(f)) = (IF f.h1 = 1 THEN 0 ELSE 1)

\* The four factors of the risk score, from the metrics of a finished run.
RiskFactors(m) ==
    Min(3000, 2 * m.summary.average_complexity)
      + (IF m.summary.comment_ratio < 1000 THEN 2000
         ELSE IF m.summary.comment_ratio < 2000 THEN 1000 ELSE 0)
      + 100 * Min(25, 2 * m.complexity_distribution.high
                        + 5 * m.complexity_distribution.very_high)
      + 100 * Min(25, 5 * m.risk_indicators)

(***************************************************************************)
(* C26: the risk score of the metrics analyzer is min(100, F1+F2+F3+F4)    *)
(* of the run it summarizes: F1 = min(30, 2 x average complexity), F2 = 20 *)
(* for a comment ratio below 10, 10 below 20 and 0 otherwise, F3 =         *)
(* min(25, 2 x high + 5 x very high routines), F4 = min(25, 5 x risk       *)
(* indicators).  The score is in hundredths like the ratios.               *)
(***************************************************************************)
C26_RiskScoreIsSumOfFactors ==
    rkResult # NoResult =>
        rkResult.summary.risk_score = Min(10000, RiskFactors(rkResult))

\* The iterations value load_repair_history computes for an error id from the
\* plan files, 0 for an id without a record.
ReportedIterations(id) ==
    LET records == load_repair_history(planFiles)
    IN  IF id \in DOMAIN records THEN records[id].iterations ELSE 0

\* The count error_history.json stores for an error id, 0 without an entry.
StoredCount(id) == HistoryGet(load_error_history(historyFile), id)

\* The counts of error_history.json are the iterations of the report.
HistoryMatchesPlans ==
    \A id \in DOMAIN load_error_history(historyFile)
                \cup DOMAIN load_repair_history(planFiles) :
        StoredCount(id) = ReportedIterations(id)

\* A step leaves every plan file that exists as it is.
PlanFilesKept ==
    \A n \in DOMAIN planFiles :
        n \in DOMAIN planFiles' /\ planFiles'[n] = planFiles[n]

(***************************************************************************)
(* C27: after any sequence of analyzer runs, one after the other on one    *)
(* output directory, the count error_history.json stores for every error   *)
(* id is the iterations value load_repair_history computes for it from     *)
(* the plan files, and no run overwrites a plan file of an earlier run.    *)
(***************************************************************************)
C27_HistoryAgreesWithPlanFiles ==
    [](HistoryMatchesPlans) /\ [][PlanFilesKept]_vars

\* Three runs have written three plan files; an error was repaired in two of
\* them and skipped in the third for having reached the maximum, and another
\* error has a count of its own.
C27_Witness ==
    /\ analyzerRuns = 3
    /\ DOMAIN planFiles = 1..3
    /\ lastRun.skipped # <<>>
    /\ \E id \in DOMAIN historyFile :
          /\ historyFile[id] = 2
          /\ ReportedIterations(id) = 2
          /\ \E n, k \in DOMAIN planFiles :
                /\ n # k
                /\ \E i \in 1..Len(planFiles[n].repairs) :
                      report_generate_error_id(planFiles[n].repairs[i]) = id
                /\ \E i \in 1..Len(planFiles[k].repairs) :
                      report_generate_error_id(planFiles[k].repairs[i]) = id
    /\ \E id \in DOMAIN historyFile : historyFile[id] = 1

(***************************************************************************)
(* C28: in coverage_validator the verdict print_summary returns, which     *)
(* decides the exit code, is the verdict validate_all returned for the     *)
(* same inputs; a requested layer whose coverage file is missing or        *)
(* unreadable makes both verdicts fail.                                    *)
(***************************************************************************)
C28_SummaryVerdictIsValidateAll ==
    (covRun # NoResult /\ covRun.given # {}) =>
        /\ covRun.passed = covRun.overall_pass
        /\ (\E layer \in covRun.given : covFiles[layer] \in {NoFile, Malformed})
              => (~covRun.passed /\ ~covRun.overall_pass)

(***************************************************************************)
(* C29: every table in the result of the schema extractor has at least one *)
(* CRUD operation and at least one source file recorded; a table entry is  *)
(* made only by a SELECT, INSERT, UPDATE or DELETE statement that names    *)
(* the table, never by a JOIN condition.                                   *)
(***************************************************************************)
C29_EveryTableHasOperationAndSource ==
    schemaResult # NoResult =>
        \A t \in DOMAIN schemaResult.tables :
            /\ schemaResult.tables[t].operations # <<>>
            /\ schemaResult.tables[t].sources # <<>>
            /\ \E i \in 1..Len(sqlFiles) : CrudOf(sqlFiles[i].stmts, t) # {}

\* The files under a root with one of the extensions, outside the
\* subdirectories of the root that are skipped.
EligibleFiles(root, extensions) ==
    IF ~auditDirs[root].exists THEN {}
    ELSE {f \in auditDirs[root].files : f.ext \in extensions /\ f.dir \notin skip_dirs}

(***************************************************************************)
(* C30: scan_directory of both auditors scans every file with an eligible  *)
(* extension under the given root except the files inside a subdirectory   *)
(* of the root named node_modules, .git, dist, coverage or .angular; the   *)
(* names of the directories above the root do not matter.                  *)
(***************************************************************************)
C30_ScansAllButSkippedSubdirs ==
    auditRun # NoResult =>
        auditRun.scanned =
            UNION {EligibleFiles(root,
                      IF auditRun.tool = "a11y_audit"
                      THEN {".html", ".css", ".scss"}
                      ELSE {".ts", ".js", ".html", ".json"}) : root \in auditRun.roots}
====
